---- MODULE Spec2Model ----
(***************************************************************************)
(* pi-statusd: the status daemon's scanner (process table + telemetry      *)
(* fusion) and message router (send_message), as state machines.           *)
(*                                                                         *)
(* Strings whose content the code inspects character by character (the     *)
(* message) are sequences of one-character strings; command lines are      *)
(* sequences of whitespace-free tokens (the result of str.split()).        *)
(* Python's None is the string "None".                                     *)
(***************************************************************************)
EXTENDS Integers, Sequences, FiniteSets, TLC

VARIABLES
    pc,             \* position of the send_message call
    pid,            \* send_message: pid argument
    text,           \* send_message: message after strip()
    tty,            \* send_message: row.get("tty")
    mux,            \* send_message: effective mux
    mux_session,    \* send_message: effective mux session
    pane_target,    \* send_message: routing.tmux.paneTarget of the telemetry read (or None)
    detected_app,   \* what _detect_terminal_target_for_pid(pid, by_pid) yields for the rows read
    terminal_app,   \* send_message: terminal_app local (set at line 813)
    attempt,        \* _send_via_bridge: loop variable
    retry_attempts, \* _send_via_bridge: clamped number of attempts
    last_error,     \* _send_via_bridge: last_error
    inbox,          \* envelopes this call has placed in inbox/<pid>/
    next_uuid,      \* uuid4 source: number of ids drawn so far
    log,            \* transports attempted by this call, in order
    result,         \* the dict send_message returned
    bridge_result,  \* send_message: what _send_via_bridge returned
    msg_blank,      \* the call's input: the message argument holds only whitespace
    target_comm,    \* the call's input: comm of the process-table row of the pid (None: no row)
    scan_rows,      \* scan: rows read by _ps_rows()
    scan_telemetry, \* scan: what _read_pi_telemetry_instances() returned
    scan_result,    \* scan: the dict scan() returned
    cfg,            \* HTTP gateway: what load_config() returned
    clock,          \* HTTP gateway: time.time(), in seconds
    recent,         \* HTTP gateway: RateLimiter._recent, per client ip
    admitted,       \* per client ip and second, the POST /send requests the limiter let pass
    http_pc,        \* position of the HTTP gateway: down, idle, polling, done
    http_req,       \* the request being handled
    http_resp,      \* the response written for it
    http_sent,      \* its calls of request_socket(): the line written and what came of it
    http_local,     \* locals of a watch handler that is in its loop
    recent_before,  \* RateLimiter._recent when the request arrived
    srv_pc,         \* socket server: accept, recv, parse, watch, send, close, stopped
    srv_open,       \* the accepted connection is open
    srv_req,        \* the request line received on it
    srv_resp,       \* the dict parse_request returned
    srv_written,    \* responses written on the connection
    srv_exc,        \* exception that left handle_client (None: none)
    srv_since,      \* parse_request: since
    srv_polls,      \* parse_request: passes of the watch loop that slept
    srv_scans,      \* the agents of each scan() of the watch loop
    loaded,         \* gateway: the daemon's agents and the result of each _load_status()
    msg_sources,    \* what telemetry, the session file and the terminal hold for one agent
    msg_result,     \* the message fields of the agent / of the latest_message response
    enq_pc,         \* _send_via_bridge: position in the enqueue of one envelope
    enq_attempt,    \* _send_via_bridge: attempt
    enq_files,      \* the files of inbox/<pid>/
    enq_seen,       \* what the bridge consumer has read from inbox/<pid>/*.json
    bridge_env,     \* the PI_BRIDGE_* environment variables
    bridge_settings, \* timeout_ms, retry_attempts, retry_backoff_ms computed from them
    fleet,          \* the agents the daemon reports now
    fleet_changes,  \* how often the fleet has changed
    watcher,        \* watch client: the fingerprint and snapshot of its last response
    conv_watch,     \* the watch handler serving the client
    listeners,      \* HTTP gateway: per listener, whether it serves, and its RateLimiter
    thr,            \* each handler thread: its listener and its position in do_POST
    thr_clock,      \* time.time() as the handler threads read it
    thr_admitted,   \* per listener, the POST /send requests of the one client ip that allow() let pass
    peer,           \* socket server: each client of the socket: where it is and what it wrote
    acc_pending,    \* connections made and not yet returned by server.accept(), oldest first
    acc_pc,         \* position of the daemon in run_server and handle_client
    acc_conn,       \* the client whose connection handle_client holds, or None
    acc_polls,      \* passes of the loop the request runs (watch polls, bridge send retries)
    inj_pc,         \* send_message, by characters written: position of the call
    inj_route,      \* the mux, mux session, tty and terminal app the call works with, and the length of its text
    inj_log,        \* the transports the call has attempted, in order, with the characters each wrote
    walk_pc,        \* ancestor walks: which walk runs ("mux", "terminal"), "idle" or "done"
    walk_rows,      \* the process table the walk reads
    walk_cur,       \* _infer_mux / _detect_terminal_target_for_pid: cur
    walk_seen,      \* seen
    walk_hops,      \* _infer_mux: hops
    walk_examined,  \* the pids looked up in by_pid, in order
    walk_result,    \* what the walk returned: (mux, session), or the terminal app
    parse_lines,    \* session file: the lines of the chunk read, oldest first
    parse_result    \* what _latest_assistant_message returned for them

sendVars == <<pc, pid, text, tty, mux, mux_session, pane_target, detected_app, terminal_app,
              attempt, retry_attempts, last_error, inbox, next_uuid, log, result,
              bridge_result, msg_blank, target_comm>>
scanVars == <<scan_rows, scan_telemetry, scan_result>>
httpVars == <<cfg, clock, recent, admitted, http_pc, http_req, http_resp, http_sent, http_local,
              recent_before>>
sockVars == <<srv_pc, srv_open, srv_req, srv_resp, srv_written, srv_exc, srv_since, srv_polls,
              srv_scans>>
loadVars == <<loaded>>
msgVars == <<msg_sources, msg_result>>
enqVars == <<enq_pc, enq_attempt, enq_files, enq_seen>>
envVars == <<bridge_env, bridge_settings>>
convVars == <<fleet, fleet_changes, watcher, conv_watch>>
thrVars == <<listeners, thr, thr_clock, thr_admitted>>
accVars == <<peer, acc_pending, acc_pc, acc_conn, acc_polls>>
injVars == <<inj_pc, inj_route, inj_log>>
walkVars == <<walk_pc, walk_rows, walk_cur, walk_seen, walk_hops, walk_examined, walk_result>>
parseVars == <<parse_lines, parse_result>>
vars == <<sendVars, scanVars, httpVars, sockVars, loadVars, msgVars, enqVars, envVars, convVars, thrVars, accVars, injVars, walkVars, parseVars>>
nonSendVars == <<scanVars, httpVars, sockVars, loadVars, msgVars, enqVars, envVars, convVars, thrVars, accVars, injVars, walkVars, parseVars>>
nonScanVars == <<sendVars, httpVars, sockVars, loadVars, msgVars, enqVars, envVars, convVars, thrVars, accVars, injVars, walkVars, parseVars>>
nonHttpVars == <<sendVars, scanVars, sockVars, loadVars, msgVars, enqVars, envVars, convVars, thrVars, accVars, injVars, walkVars, parseVars>>
nonSockVars == <<sendVars, scanVars, httpVars, loadVars, msgVars, enqVars, envVars, convVars, thrVars, accVars, injVars, walkVars, parseVars>>
nonLoadVars == <<sendVars, scanVars, httpVars, sockVars, msgVars, enqVars, envVars, convVars, thrVars, accVars, injVars, walkVars, parseVars>>
nonMsgVars == <<sendVars, scanVars, httpVars, sockVars, loadVars, enqVars, envVars, convVars, thrVars, accVars, injVars, walkVars, parseVars>>
nonEnqVars == <<sendVars, scanVars, httpVars, sockVars, loadVars, msgVars, envVars, convVars, thrVars, accVars, injVars, walkVars, parseVars>>
nonEnvVars == <<sendVars, scanVars, httpVars, sockVars, loadVars, msgVars, enqVars, convVars, thrVars, accVars, injVars, walkVars, parseVars>>
nonConvVars == <<sendVars, scanVars, httpVars, sockVars, loadVars, msgVars, enqVars, envVars, thrVars, accVars, injVars, walkVars, parseVars>>
nonThrVars == <<sendVars, scanVars, httpVars, sockVars, loadVars, msgVars, enqVars, envVars, convVars, accVars, injVars, walkVars, parseVars>>
nonAccVars == <<sendVars, scanVars, httpVars, sockVars, loadVars, msgVars, enqVars, envVars, convVars, thrVars, injVars, walkVars, parseVars>>
nonInjVars == <<sendVars, scanVars, httpVars, sockVars, loadVars, msgVars, enqVars, envVars, convVars, thrVars, accVars, walkVars, parseVars>>
nonWalkVars == <<sendVars, scanVars, httpVars, sockVars, loadVars, msgVars, enqVars, envVars, convVars, thrVars, accVars, injVars, parseVars>>
nonParseVars == <<sendVars, scanVars, httpVars, sockVars, loadVars, msgVars, enqVars, envVars, convVars, thrVars, accVars, injVars, walkVars>>

None == "None"

----------------------------------------------------------------------------
(* Bounds of the model *)

\* largest send_rate_per_10s of a configuration
MaxLimit == 2
\* most passes of a watch loop before its deadline
MaxPolls == 2
\* last second of the clock
MaxTime == 12
\* longest message handed to send
MaxMsgLen == 2
\* largest value of PI_BRIDGE_SEND_RETRIES tried below the clamp
MaxRetryEnv == 2
\* most telemetry files / CLI instances present at a scan
MaxTelemetry == 2

\* hop limit of the mux ancestor walk
MaxHops == 20
\* default and clamp of PI_BRIDGE_SEND_RETRIES
DefaultRetries == 3
MaxRetries == 8
\* cpu threshold of _infer_activity, in tenths of a percent (1.0)
CpuBusyTenths == 10

----------------------------------------------------------------------------
(* Strings *)

Chars == {" ", "a"}
IsSpace(c) == c = " "

RECURSIVE LStrip(_)
LStrip(s) == IF s # <<>> /\ IsSpace(Head(s)) THEN LStrip(Tail(s)) ELSE s

RECURSIVE RStrip(_)
RStrip(s) == IF s # <<>> /\ IsSpace(s[Len(s)]) THEN RStrip(SubSeq(s, 1, Len(s) - 1)) ELSE s

\* str.strip()
Strip(s) == RStrip(LStrip(s))

RECURSIVE SeqsUpTo(_, _)
SeqsUpTo(S, n) ==
    IF n = 0 THEN {<<>>}
    ELSE LET shorter == SeqsUpTo(S, n - 1)
         IN shorter \cup {Append(s, x) : s \in {t \in shorter : Len(t) = n - 1}, x \in S}

Messages == SeqsUpTo(Chars, MaxMsgLen)

\* Words the code searches for inside a command-line token (after lower()).
TokenWords(tok) ==
    CASE tok = "zellij" -> {"zellij"}
      [] tok = "/tmp/zellij/s1" -> {"zellij", "s1"}
      [] tok = "tmux" -> {"tmux"}
      [] tok = "s1:0" -> {"s1"}
      [] tok = "s1" -> {"s1"}
      [] tok = "screen" -> {"screen"}
      [] tok = "iTerm2" -> {"iterm"}
      [] tok = "ghostty" -> {"ghostty"}
      [] tok = "--server" -> {"--server"}
      [] OTHER -> {}

\* `word in args` for an args string with the given tokens
ArgsContain(args, word) == \E i \in 1..Len(args) : word \in TokenWords(args[i])

\* Path(tok).name
BaseName(tok) == IF tok = "/tmp/zellij/s1" THEN "s1" ELSE tok
\* tok.split(":", 1)[0]
BeforeColon(tok) == IF tok = "s1:0" THEN "s1" ELSE tok

----------------------------------------------------------------------------
(* Process table *)

Pids == {1, 2, 3}

Row(p, pp, shape) ==
    [pid |-> p, ppid |-> pp, comm |-> shape.comm, state |-> shape.state,
     tty |-> shape.tty, cpu |-> shape.cpu, args |-> shape.args]

PiShape(st, t, c) == [comm |-> "pi", state |-> st, tty |-> t, cpu |-> c, args |-> <<"pi">>]
OtherShape(cm, t, a) == [comm |-> cm, state |-> "S", tty |-> t, cpu |-> 0, args |-> a]

PiShapes ==
    {PiShape("R+", "ttys001", 0), PiShape("S+", "ttys001", 0),
     PiShape("S", "ttys001", 15), PiShape("Ss", "??", 0)}

ShellShape == OtherShape("zsh", "ttys001", <<"-zsh">>)
MuxShapes ==
    {OtherShape("zellij", "??", <<"zellij", "--server", "/tmp/zellij/s1">>),
     OtherShape("zellij", "ttys001", <<"zellij">>),
     OtherShape("tmux", "ttys001", <<"tmux", "attach", "-t", "s1:0">>),
     OtherShape("tmux", "??", <<"tmux">>),
     OtherShape("screen", "??", <<"screen", "-S", "s1">>)}
TermShapes == {OtherShape("iTerm2", "??", <<"iTerm2">>), OtherShape("ghostty", "??", <<"ghostty">>)}

Absent == [comm |-> None]

\* parent links tried: a chain 1 <- 2 <- 3, a star under 1, and a cycle 1 -> 3 -> 2 -> 1
ParentMaps ==
    {[p \in Pids |-> p - 1],
     [p \in Pids |-> IF p = 1 THEN 0 ELSE 1],
     [p \in Pids |-> IF p = 1 THEN 3 ELSE p - 1]}

RECURSIVE RowsOf(_, _, _)
RowsOf(shapeOf, parentOf, order) ==
    IF order = <<>> THEN <<>>
    ELSE LET p == Head(order)
             rest == RowsOf(shapeOf, parentOf, Tail(order))
         IN IF shapeOf[p] = Absent THEN rest
            ELSE <<Row(p, parentOf[p], shapeOf[p])>> \o rest

TablesOver(shapes, parents, orders) ==
    {RowsOf(shapeOf, parentOf, order) :
        shapeOf \in [Pids -> shapes \cup {Absent}], parentOf \in parents, order \in orders}

\* by_pid = {r["pid"]: r for r in rows}; by_pid.get(p)
HasPid(rows, p) == \E i \in 1..Len(rows) : rows[i].pid = p
ByPid(rows, p) ==
    LET idx == {i \in 1..Len(rows) : rows[i].pid = p}
    IN rows[CHOOSE i \in idx : \A j \in idx : j <= i]

FindRowAnyComm(rows, p) ==
    LET idx == {i \in 1..Len(rows) : rows[i].pid = p}
    IN IF idx = {} THEN Absent ELSE rows[CHOOSE i \in idx : \A j \in idx : i <= j]
\* next((r for r in rows if r["pid"] == pid and r["comm"] == "pi"), None)
FindPiRow(rows, p) ==
    LET idx == {i \in 1..Len(rows) : rows[i].pid = p /\ rows[i].comm = "pi"}
    IN IF idx = {} THEN Absent ELSE rows[CHOOSE i \in idx : \A j \in idx : i <= j]

\* comm of the process with pid p in the table, None when there is none
CommOfPid(rows, p) == IF HasPid(rows, p) THEN ByPid(rows, p).comm ELSE None

RECURSIVE FlagValue(_, _, _)
\* first i with parts[i] in flags and i + 1 < len(parts): parts[i + 1]
FlagValue(parts, flags, i) ==
    IF i > Len(parts) THEN None
    ELSE IF parts[i] \in flags /\ i + 1 <= Len(parts) THEN parts[i + 1]
    ELSE FlagValue(parts, flags, i + 1)

RECURSIVE ZellijScan(_, _)
ZellijScan(parts, i) ==
    IF i > Len(parts) THEN None
    ELSE IF parts[i] \in {"-s", "--session"} /\ i + 1 <= Len(parts) THEN parts[i + 1]
    ELSE IF parts[i] = "--server" /\ i + 1 <= Len(parts) THEN BaseName(parts[i + 1])
    ELSE ZellijScan(parts, i + 1)

ExtractZellijSession(args) == ZellijScan(args, 1)

\* the attached form -t<target> does not occur among the tokens of this model
ExtractTmuxSession(args) ==
    LET target == FlagValue(args, {"-t", "--target"}, 1)
    IN IF target = None THEN None ELSE BeforeColon(target)

RECURSIVE MuxWalk(_, _, _, _)
MuxWalk(rows, cur, seen, hops) ==
    IF cur = 0 \/ cur \in seen \/ hops >= MaxHops THEN <<None, None>>
    ELSE IF ~HasPid(rows, cur) THEN <<None, None>>
    ELSE LET anc == ByPid(rows, cur)
         IN IF ArgsContain(anc.args, "zellij") THEN <<"zellij", ExtractZellijSession(anc.args)>>
            ELSE IF ArgsContain(anc.args, "tmux") THEN <<"tmux", ExtractTmuxSession(anc.args)>>
            ELSE IF ArgsContain(anc.args, "screen") THEN <<"screen", None>>
            ELSE MuxWalk(rows, anc.ppid, seen \cup {cur}, hops + 1)

InferMux(row, rows) == MuxWalk(rows, row.ppid, {}, 0)

RECURSIVE TerminalWalk(_, _, _)
TerminalWalk(rows, cur, seen) ==
    IF cur = 0 \/ cur \in seen THEN None
    ELSE IF ~HasPid(rows, cur) THEN None
    ELSE LET row == ByPid(rows, cur)
             words == TokenWords(row.comm) \cup UNION {TokenWords(row.args[i]) : i \in 1..Len(row.args)}
         IN IF "ghostty" \in words THEN "Ghostty"
            ELSE IF "iterm" \in words THEN "iTerm2"
            ELSE IF "terminal" \in words THEN "Terminal"
            ELSE TerminalWalk(rows, row.ppid, seen \cup {cur})

\* first component of _detect_terminal_target_for_pid
DetectTerminalApp(p, rows) == TerminalWalk(rows, p, {})

----------------------------------------------------------------------------
(* send_message: what the environment can answer *)

SendTables == TablesOver(PiShapes \cup {ShellShape} \cup MuxShapes \cup TermShapes, ParentMaps, {<<1, 2, 3>>})

KnownMuxes == {"zellij", "tmux", "screen"}

NoRouting == [present |-> FALSE]
\* telemetry.get("routing") of the instance found for the pid; rmux "kitty" stands for
\* any string outside the known muxes, None for an absent or non-string value;
\* muxSession "  " is a blank string, " s2 " a padded one
Routings ==
    {NoRouting} \cup
    [present : {TRUE}, mux : {None, "zellij", "tmux", "screen", "kitty"},
     muxSession : {None, "  ", " s2 "}, paneTarget : {None, "s2:0.1"}]

\* str.strip() on the session strings telemetry can carry
StripSession(s) == IF s = "  " THEN "" ELSE IF s = " s2 " THEN "s2" ELSE s

Clock == [now_ms |-> 100000, registry_stale_ms |-> 10000, min_stale_ms |-> 1000]

NoFile == [exists |-> FALSE]
RegistryFiles ==
    {NoFile} \cup
    [exists : {TRUE}, pid : Pids, updatedAt : {0, Clock.now_ms - 500, Clock.now_ms - 20000},
     alive : BOOLEAN]

Max(a, b) == IF a >= b THEN a ELSE b
Min(a, b) == IF a <= b THEN a ELSE b

\* _bridge_registry_for_pid(pid) is not None
BridgeRegistryLive(file, p) ==
    /\ file.exists
    /\ file.pid = p
    /\ file.updatedAt > 0
    /\ ~(Clock.now_ms - file.updatedAt > Max(Clock.min_stale_ms, Clock.registry_stale_ms))
    /\ file.alive

\* an environment variable: unset, the text of an integer, or a text int() rejects
EnvUnset == [set |-> FALSE]
EnvInt(n) == [set |-> TRUE, parses |-> TRUE, value |-> n]
EnvText == [set |-> TRUE, parses |-> FALSE]

\* _to_int(value, default) for such a variable
ToInt(env, default) == IF env.set /\ env.parses THEN env.value ELSE default

RetryEnvValues == {EnvUnset} \cup {EnvInt(n) : n \in (-1..MaxRetryEnv) \cup {MaxRetries + 1}}

\* retry_attempts = max(1, min(8, _to_int(env, default=3) or 3))
RetryAttempts(env) ==
    LET parsed == ToInt(env, DefaultRetries)
        chosen == IF parsed = 0 THEN DefaultRetries ELSE parsed
    IN Max(1, Min(MaxRetries, chosen))

RateLimitFamily == {"rate_limited", "bridge_rate_limited", "pi_rate_limited"}

\* acks the bridge consumer can write: status/error/resolvedMode absent (None) or set
AckValues ==
    {[status |-> "delivered", error |-> None, resolvedMode |-> None],
     [status |-> "delivered", error |-> "rate_limited", resolvedMode |-> "interrupt"],
     [status |-> "failed", error |-> None, resolvedMode |-> None],
     [status |-> "failed", error |-> "expired", resolvedMode |-> None],
     [status |-> "failed", error |-> "rate_limited", resolvedMode |-> None],
     [status |-> "failed", error |-> "bridge_rate_limited", resolvedMode |-> "interrupt"],
     [status |-> "failed", error |-> "pi_rate_limited", resolvedMode |-> None],
     [status |-> "rate_limited", error |-> None, resolvedMode |-> None],
     [status |-> None, error |-> None, resolvedMode |-> None]}

\* ack = {"status": "failed", "error": "invalid_ack"} for an unparseable ack file
InvalidAck == [status |-> "failed", error |-> "invalid_ack", resolvedMode |-> None]

\* f"bridge ack: {status}"
AckErrorText(status) ==
    CASE status = "failed" -> "bridge ack: failed"
      [] status = "rate_limited" -> "bridge ack: rate_limited"
      [] OTHER -> "bridge ack: other"

\* "rate_limited" in bridge_msg
MsgHasRateLimited(msg) == msg = "bridge ack: rate_limited"

NoResult == [returned |-> FALSE]
NoError == [set |-> FALSE]
\* _send_via_bridge returned None
NoBridge == [bridge |-> FALSE]

Returned == "ok" \in DOMAIN result

----------------------------------------------------------------------------
(* send_message: the decisions the code takes between two external calls *)

\* lines 737-743: the telemetry routing override
EffectiveMux(inferred, r) ==
    IF r.present /\ r.mux \in KnownMuxes THEN r.mux ELSE inferred
EffectiveSession(inferred, r) ==
    IF r.present /\ r.muxSession # None /\ StripSession(r.muxSession) # ""
    THEN StripSession(r.muxSession) ELSE inferred

\* lines 746 and 765: which mux injection the call enters
MuxStageSessionRequired(m, session) ==
    IF m \in {"zellij", "tmux"} /\ session # None THEN m ELSE None
MuxStage(m, session) ==
    IF m = "zellij" /\ session # None THEN "zellij"
    ELSE IF m = "tmux" THEN "tmux"
    ELSE None

\* lines 767-772: routing.tmux.paneTarget
RoutedPaneTarget(r) == IF r.present THEN r.paneTarget ELSE None

\* _send_tmux_message: number of commands in `attempts`
TmuxCommands(session, target) ==
    (IF target # None THEN 1 ELSE 0) + (IF session # None THEN 2 ELSE 0) + 1

ShouldRetryAlways(bridge_error, att, n) == att < n - 1
\* line 452
ShouldRetry(bridge_error, att, n) == bridge_error \in RateLimitFamily /\ att < n - 1

BridgeRateLimitedAnyFailure(br) == TRUE
\* lines 791-793
BridgeRateLimited(br) ==
    LET bridge_error == IF "bridge_error" \in DOMAIN br /\ br.bridge_error # None
                        THEN br.bridge_error ELSE ""
        bridge_msg == IF "error" \in DOMAIN br THEN br.error ELSE ""
    IN bridge_error \in RateLimitFamily \/ MsgHasRateLimited(bridge_msg)

MuxGateOff(m) == FALSE
\* line 802
MuxGate(m) == m \in {"zellij", "screen"}

TtyUsable(t) == t # None /\ t # "" /\ t # "??"

\* lines 803-810
MuxFailure == [ok |-> FALSE, error |-> "could not deliver message via mux", pid |-> pid,
               mux |-> mux, mux_session |-> mux_session, tty |-> tty]
\* lines 840-848
FinalFailure == [ok |-> FALSE,
                 error |-> "could not deliver message (mux, tty-input and ui-keystroke all failed)",
                 pid |-> pid, mux |-> mux, mux_session |-> mux_session, tty |-> tty,
                 terminal_app |-> terminal_app]

Logged(t, ok) == Append(log, [t |-> t, ok |-> ok])

Return(r) == pc' = "done" /\ result' = r

\* lines 786-817 once _send_via_bridge has returned br (NoBridge for None)
AfterBridge(br) ==
    /\ bridge_result' = br
    /\ IF br # NoBridge /\ br.ok THEN Return(br) /\ UNCHANGED terminal_app
       ELSE IF br # NoBridge /\ ~BridgeRateLimited(br) THEN Return(br) /\ UNCHANGED terminal_app
       ELSE IF MuxGate(mux) THEN Return(MuxFailure) /\ UNCHANGED terminal_app
       ELSE /\ terminal_app' = detected_app
            /\ pc' = IF TtyUsable(tty) THEN "script" ELSE "ui"
            /\ UNCHANGED result

----------------------------------------------------------------------------
(* send_message: the steps of one call, one per external call *)

bridgeVars == <<attempt, retry_attempts, last_error, inbox, next_uuid>>

\* the message argument without leading and trailing whitespace
MessageText(m) == Strip(m)

\* lines 721-733: strip the message, read the process table, find the pi row, infer the mux
SendStart(p, m) ==
    /\ pc = "idle"
    /\ pid' = p
    /\ text' = MessageText(m)
    /\ msg_blank' = \A i \in 1..Len(m) : IsSpace(m[i])
    /\ IF MessageText(m) = <<>>
       THEN /\ Return([ok |-> FALSE, error |-> "message is empty"])
            /\ UNCHANGED <<tty, mux, mux_session, detected_app, target_comm>>
       ELSE \E rows \in SendTables :
              LET row == FindPiRow(rows, p)
                  inferred == InferMux(row, rows)
              IN /\ target_comm' = CommOfPid(rows, p)
                 /\ IF row = Absent
                    THEN /\ Return([ok |-> FALSE, error |-> "pi pid not found"])
                         /\ UNCHANGED <<tty, mux, mux_session, detected_app>>
                    ELSE /\ tty' = row.tty
                         /\ mux' = inferred[1]
                         /\ mux_session' = inferred[2]
                         /\ detected_app' = DetectTerminalApp(p, rows)
                         /\ pc' = "telemetry"
                         /\ UNCHANGED result
    /\ UNCHANGED <<pane_target, terminal_app, bridgeVars, log, bridge_result, nonSendVars>>

\* lines 735-743: the routing of the pid's telemetry instance overrides the inferred mux
SendRouting ==
    /\ pc = "telemetry"
    /\ \E r \in Routings :
         /\ pane_target' = RoutedPaneTarget(r)
         /\ mux' = EffectiveMux(mux, r)
         /\ mux_session' = EffectiveSession(mux_session, r)
    /\ pc' = "mux"
    /\ UNCHANGED <<pid, text, tty, detected_app, terminal_app, bridgeVars, log, result,
                   bridge_result, msg_blank, target_comm, nonSendVars>>

\* lines 746-763: zellij write-chars, then the carriage return
SendZellij ==
    /\ pc = "mux"
    /\ MuxStage(mux, mux_session) = "zellij"
    /\ \E outcome \in {"ok", "write_failed", "enter_raised"} :
         IF outcome = "ok"
         THEN /\ log' = Logged("zellij", TRUE)
              /\ Return([ok |-> TRUE, pid |-> pid, delivery |-> "zellij", mux_session |-> mux_session])
         ELSE /\ log' = Logged("zellij", FALSE)
              /\ pc' = "bridge"
              /\ UNCHANGED result
    /\ UNCHANGED <<pid, text, tty, mux, mux_session, pane_target, detected_app, terminal_app, bridgeVars, bridge_result, msg_blank, target_comm, nonSendVars>>

\* lines 765-784 and _send_tmux_message: send-keys commands until one exits 0
SendTmux ==
    /\ pc = "mux"
    /\ MuxStage(mux, mux_session) = "tmux"
    /\ \E resolved \in (IF TtyUsable(tty) THEN {None, "s1:0.0"} ELSE {None}) :
         LET tmux_target == IF pane_target # None THEN pane_target ELSE resolved
         IN \E first_ok \in 0..TmuxCommands(mux_session, tmux_target) :
              IF first_ok > 0
              THEN /\ log' = Logged("tmux", TRUE)
                   /\ Return([ok |-> TRUE, pid |-> pid, delivery |-> "tmux",
                              mux_session |-> mux_session, tmux_target |-> tmux_target])
              ELSE /\ log' = Logged("tmux", FALSE)
                   /\ pc' = "bridge"
                   /\ UNCHANGED result
    /\ UNCHANGED <<pid, text, tty, mux, mux_session, pane_target, detected_app, terminal_app, bridgeVars, bridge_result, msg_blank, target_comm, nonSendVars>>

\* no mux injection applies: on to the bridge
SendNoMux ==
    /\ pc = "mux"
    /\ MuxStage(mux, mux_session) = None
    /\ pc' = "bridge"
    /\ UNCHANGED <<pid, text, tty, mux, mux_session, pane_target, detected_app, terminal_app,
                   bridgeVars, log, result, bridge_result, msg_blank, target_comm, nonSendVars>>

DirError == [ok |-> FALSE, pid |-> pid, delivery |-> "pi-bridge", error |-> "bridge directory error"]
EnqueueError == [ok |-> FALSE, pid |-> pid, delivery |-> "pi-bridge", error |-> "bridge enqueue failed"]

\* lines 337-362: registry lookup, inbox/ack directories, retry settings
SendBridgeOpen ==
    /\ pc = "bridge"
    /\ \E file \in RegistryFiles :
         IF ~BridgeRegistryLive(file, pid)
         THEN AfterBridge(NoBridge) /\ UNCHANGED bridgeVars
         ELSE \E mkdir_ok \in BOOLEAN, env \in RetryEnvValues :
                IF ~mkdir_ok
                THEN AfterBridge(DirError) /\ UNCHANGED bridgeVars
                ELSE /\ retry_attempts' = RetryAttempts(env)
                     /\ attempt' = 0
                     /\ pc' = "enqueue"
                     /\ UNCHANGED <<last_error, inbox, next_uuid, result, terminal_app, bridge_result>>
    /\ UNCHANGED <<pid, text, tty, mux, mux_session, pane_target, detected_app, log, msg_blank, target_comm, nonSendVars>>

\* msg_id = str(uuid.uuid4()): the id after `drawn` ids were drawn
EnvelopeId(drawn) == drawn + 1

\* lines 368-383
Envelope ==
    [v |-> 1, id |-> EnvelopeId(next_uuid), pid |-> pid, text |-> text, source |-> "statusbar",
     mode |-> "queued", attempt |-> attempt + 1]

\* lines 364-403: one pass of the loop up to the rename into the inbox
SendEnqueue ==
    /\ pc = "enqueue"
    /\ \E written \in BOOLEAN :
         IF written
         THEN /\ inbox' = Append(inbox, Envelope)
              /\ next_uuid' = next_uuid + 1
              /\ log' = Logged("pi-bridge", FALSE)
              /\ pc' = "ack"
              /\ UNCHANGED <<result, terminal_app, bridge_result>>
         ELSE /\ next_uuid' = next_uuid + 1
              /\ log' = Logged("pi-bridge", FALSE)
              /\ AfterBridge(EnqueueError)
              /\ UNCHANGED inbox
    /\ UNCHANGED <<pid, text, tty, mux, mux_session, pane_target, detected_app,
                   attempt, retry_attempts, last_error, msg_blank, target_comm, nonSendVars>>

TimeoutError ==
    [ok |-> FALSE, pid |-> pid, delivery |-> "pi-bridge", error |-> "bridge ack timeout",
     bridge_mode |-> "queued", bridge_attempt |-> attempt + 1]

AckStatus(ack) == IF ack.status = None THEN "failed" ELSE ack.status
AckError(ack) == IF ack.error = None THEN "" ELSE ack.error
AckMode(ack) == IF ack.resolvedMode = None THEN "queued" ELSE ack.resolvedMode

\* lines 429-438
DeliveredResult(ack) ==
    LET resp == [ok |-> TRUE, pid |-> pid, delivery |-> "pi-bridge",
                 bridge_mode |-> AckMode(ack), bridge_ack |-> AckStatus(ack)]
    IN IF attempt > 0 THEN resp @@ [bridge_attempts |-> attempt + 1] ELSE resp

\* lines 441-450
AckFailure(ack) ==
    [ok |-> FALSE, pid |-> pid, delivery |-> "pi-bridge", error |-> AckErrorText(AckStatus(ack)),
     bridge_mode |-> AckMode(ack), bridge_ack |-> AckStatus(ack),
     bridge_error |-> IF AckError(ack) = "" THEN None ELSE AckError(ack),
     bridge_attempt |-> attempt + 1]

\* lines 405-456: wait for the ack of the envelope just enqueued, then retry or return
SendAck ==
    /\ pc = "ack"
    /\ \E ack \in AckValues \cup {InvalidAck, [status |-> "timeout"]} :
         IF ack.status = "timeout"
         THEN /\ last_error' = TimeoutError
              /\ AfterBridge(TimeoutError)
              /\ UNCHANGED <<attempt, log>>
         ELSE IF AckStatus(ack) = "delivered"
         THEN /\ log' = [log EXCEPT ![Len(log)].ok = TRUE]
              /\ AfterBridge(DeliveredResult(ack))
              /\ UNCHANGED <<attempt, last_error>>
         ELSE /\ last_error' = AckFailure(ack)
              /\ IF ShouldRetry(AckError(ack), attempt, retry_attempts)
                 THEN /\ attempt' = attempt + 1
                      /\ pc' = "enqueue"
                      /\ UNCHANGED <<result, terminal_app, bridge_result>>
                 ELSE /\ AfterBridge(AckFailure(ack))
                      /\ UNCHANGED attempt
              /\ UNCHANGED log
    /\ UNCHANGED <<pid, text, tty, mux, mux_session, pane_target, detected_app,
                   retry_attempts, inbox, next_uuid, msg_blank, target_comm, nonSendVars>>

SendScriptNoReturn ==
    /\ pc = "script"
    /\ \E ok \in BOOLEAN : log' = Logged("terminal-script", ok)
    /\ pc' = "tty"
    /\ UNCHANGED <<pid, text, tty, mux, mux_session, pane_target, detected_app, terminal_app,
                   bridgeVars, result, bridge_result, msg_blank, target_comm, nonSendVars>>
\* line 817 and _send_via_terminal_script
SendScript ==
    /\ pc = "script"
    /\ \E ok \in BOOLEAN :
         /\ log' = Logged("terminal-script", ok)
         /\ IF ok
            THEN Return([ok |-> TRUE, pid |-> pid, delivery |-> "terminal-script",
                         tty |-> tty, terminal_app |-> terminal_app])
            ELSE pc' = "tty" /\ UNCHANGED result
    /\ UNCHANGED <<pid, text, tty, mux, mux_session, pane_target, detected_app, terminal_app,
                   bridgeVars, bridge_result, msg_blank, target_comm, nonSendVars>>

\* line 827 and _inject_tty_input
SendTty ==
    /\ pc = "tty"
    /\ \E ok \in BOOLEAN :
         /\ log' = Logged("tty-input", ok)
         /\ IF ok
            THEN Return([ok |-> TRUE, pid |-> pid, delivery |-> "tty-input", tty |-> tty])
            ELSE pc' = "ui" /\ UNCHANGED result
    /\ UNCHANGED <<pid, text, tty, mux, mux_session, pane_target, detected_app, terminal_app,
                   bridgeVars, bridge_result, msg_blank, target_comm, nonSendVars>>

\* lines 831-848 and _send_via_ui_typing
SendUi ==
    /\ pc = "ui"
    /\ IF terminal_app = None
       THEN Return(FinalFailure) /\ UNCHANGED log
       ELSE \E ok \in BOOLEAN :
              /\ log' = Logged("ui-keystroke", ok)
              /\ IF ok
                 THEN Return([ok |-> TRUE, pid |-> pid, delivery |-> "ui-keystroke",
                              tty |-> tty, terminal_app |-> terminal_app])
                 ELSE Return(FinalFailure)
    /\ UNCHANGED <<pid, text, tty, mux, mux_session, pane_target, detected_app, terminal_app,
                   bridgeVars, bridge_result, msg_blank, target_comm, nonSendVars>>

SendInit ==
    /\ pc = "idle"
    /\ pid = 0
    /\ text = <<>>
    /\ tty = None
    /\ mux = None
    /\ mux_session = None
    /\ pane_target = None
    /\ detected_app = None
    /\ terminal_app = None
    /\ attempt = 0
    /\ retry_attempts = 0
    /\ last_error = NoError
    /\ inbox = <<>>
    /\ next_uuid = 0
    /\ log = <<>>
    /\ result = NoResult
    /\ bridge_result = NoResult
    /\ msg_blank = FALSE
    /\ target_comm = None

\* the call has returned; the daemon is ready for the next request
SendReturn ==
    /\ pc = "done"
    /\ pc' = "idle"
    /\ pid' = 0
    /\ text' = <<>>
    /\ tty' = None
    /\ mux' = None
    /\ mux_session' = None
    /\ pane_target' = None
    /\ detected_app' = None
    /\ terminal_app' = None
    /\ attempt' = 0
    /\ retry_attempts' = 0
    /\ last_error' = NoError
    /\ inbox' = <<>>
    /\ next_uuid' = 0
    /\ log' = <<>>
    /\ result' = NoResult
    /\ bridge_result' = NoResult
    /\ msg_blank' = FALSE
    /\ target_comm' = None
    /\ UNCHANGED nonSendVars

----------------------------------------------------------------------------
(* scan: process table and telemetry fused into the agents list *)

TmuxShape == OtherShape("tmux", "ttys001", <<"tmux", "attach", "-t", "s1:0">>)
ScanShapes ==
    {PiShape("R+", "ttys001", 0), PiShape("S+", "ttys001", 0), PiShape("S", "??", 15),
     PiShape("Ss", "??", 0), TmuxShape}
ScanTables == TablesOver(ScanShapes, {[p \in Pids |-> p - 1]}, {<<1, 2, 3>>, <<3, 1, 2>>})

\* instance.get("state") or {}: a dict (absent keys are None, JSON true/false are
\* "true"/"false", "1" is a truthy value that is not the boolean), or a bare string
StateInfo(a, w, b, i) ==
    [dict |-> TRUE, activity |-> a, waitingForInput |-> w, busy |-> b, isIdle |-> i]
StateText(t) == [dict |-> FALSE, text |-> t]
Working == StateInfo("working", None, None, None)
WaitingInput == StateInfo("waiting_input", None, None, None)
IdleFlags == StateInfo(None, None, "false", "true")
LegacyWaiting == StateInfo("idle", "true", "true", None)
LegacyBusy == StateInfo(None, "1", "true", "true")
LegacyNotIdle == StateInfo(None, None, None, "false")
NoState == StateInfo(None, None, None, None)

\* a telemetry file: process.pid (0 for a missing or non-positive pid), whether
\* process.updatedAt is a number, its value, whether kill(pid, 0) succeeds, the state dict
TelemetryFile(p, timed, at, alive, st) ==
    [pid |-> p, timed |-> timed, updatedAt |-> at, alive |-> alive, state |-> st, origin |-> "file"]

Fresh == Clock.now_ms - 500
Stale == Clock.now_ms - 20000

TelemetryFiles ==
    {TelemetryFile(1, TRUE, Fresh, TRUE, Working),
     TelemetryFile(1, TRUE, Fresh, TRUE, IdleFlags),
     TelemetryFile(2, TRUE, Fresh, TRUE, StateText("working")),
     TelemetryFile(2, TRUE, Fresh, TRUE, WaitingInput),
     TelemetryFile(3, TRUE, Fresh, TRUE, LegacyWaiting),
     TelemetryFile(3, TRUE, Fresh, FALSE, Working),
     TelemetryFile(1, TRUE, Stale, TRUE, Working)}

TelemetryFileLists == SeqsUpTo(TelemetryFiles, MaxTelemetry)

\* what pi-telemetry-snapshot prints: unavailable, or a list of instances
NoCli == [available |-> FALSE]
CliInstance(p, alive, st) ==
    [pid |-> p, timed |-> TRUE, updatedAt |-> Fresh, alive |-> alive, state |-> st, origin |-> "cli"]
CliOutputs ==
    {NoCli} \cup
    {[available |-> TRUE, instances |-> l] :
        l \in {<<>>, <<CliInstance(2, TRUE, Working)>>, <<CliInstance(0, TRUE, Working)>>,
               <<CliInstance(3, FALSE, WaitingInput), CliInstance(3, FALSE, Working)>>,
               <<CliInstance(1, TRUE, LegacyBusy), CliInstance(2, TRUE, LegacyNotIdle)>>,
               <<CliInstance(1, TRUE, NoState), CliInstance(2, TRUE, StateText("waiting_input"))>>,
               <<CliInstance(1, TRUE, StateText("idle"))>>}}

\* lines 246-268: the filter applied to each telemetry file
FileAccepted(f) ==
    /\ f.pid > 0
    /\ f.timed
    /\ f.alive
    /\ ~(Clock.now_ms - f.updatedAt > Clock.registry_stale_ms)

\* lines 281-288: the filter applied to each CLI instance
CliAccepted(f) == f.pid > 0

\* _read_pi_telemetry_instances: the instances of the files, else those of the CLI
ReadFromFiles(files) == SelectSeq(files, FileAccepted)
ReadFromCli(cli) == IF cli.available THEN SelectSeq(cli.instances, CliAccepted) ELSE <<>>

\* str.startswith on a ps state
StartsWith(state, c) ==
    CASE state \in {"R", "R+"} -> c = "R"
      [] state \in {"S", "S+", "Ss"} -> c = "S"
      [] OTHER -> FALSE

\* _infer_activity
InferActivity(row) ==
    IF StartsWith(row.state, "R") THEN <<"running", "high">>
    ELSE IF row.cpu >= CpuBusyTenths THEN <<"running", "medium">>
    ELSE IF StartsWith(row.state, "S") /\ row.tty # "??" THEN <<"waiting_input", "medium">>
    ELSE <<"unknown", "low">>

MapTelemetryActivityEnumOnly(st) ==
    IF st.dict /\ st.activity = "working" THEN "running"
    ELSE IF st.dict /\ st.activity = "waiting_input" THEN "waiting_input"
    ELSE "unknown"
\* _map_telemetry_activity: a state dict (lines 636-650), else a bare value (652-656)
MapTelemetryActivity(st) ==
    IF st.dict
    THEN IF st.activity = "working" THEN "running"
         ELSE IF st.activity = "waiting_input" THEN "waiting_input"
         ELSE IF st.waitingForInput = "true" THEN "waiting_input"
         ELSE IF st.busy = "true" \/ st.isIdle = "false" THEN "running"
         ELSE "unknown"
    ELSE IF st.text = "working" THEN "running"
    ELSE IF st.text = "waiting_input" THEN "waiting_input"
    ELSE "unknown"

\* _find_mux_client_pid; 0 stands for None. The pid of the first row whose index is in idx
FirstPid(rows, idx) ==
    IF idx = {} THEN 0 ELSE rows[CHOOSE i \in idx : \A j \in idx : i <= j].pid

IsMuxClient(r, m) ==
    \/ m = "zellij" /\ ArgsContain(r.args, "zellij") /\ ~ArgsContain(r.args, "--server")
    \/ m = "tmux" /\ ArgsContain(r.args, "tmux")
    \/ m = "screen" /\ ArgsContain(r.args, "screen")

FindMuxClientPid(m, session, t, rows) ==
    IF m = None THEN 0
    ELSE LET BySession(r) == IsMuxClient(r, m) /\ ArgsContain(r.args, session)
             ByTty(r) == r.tty = t /\ IsMuxClient(r, m)
             first == IF session # None
                      THEN FirstPid(rows, {i \in 1..Len(rows) : BySession(rows[i])}) ELSE 0
         IN IF first # 0 THEN first
            ELSE IF TtyUsable(t) THEN FirstPid(rows, {i \in 1..Len(rows) : ByTty(rows[i])})
            ELSE 0

\* lines 104-136: the Agent built from a pi row
AgentFromProcess(row, rows) ==
    LET inferred == InferMux(row, rows)
        client == FindMuxClientPid(inferred[1], inferred[2], row.tty, rows)
        app == DetectTerminalApp(IF client # 0 THEN client ELSE row.pid, rows)
    IN [pid |-> row.pid, ppid |-> row.ppid, state |-> row.state, tty |-> row.tty, cpu |-> row.cpu,
        activity |-> InferActivity(row)[1], confidence |-> InferActivity(row)[2],
        mux |-> inferred[1], mux_session |-> inferred[2], client_pid |-> client,
        attached_window |-> (client # 0 \/ (app # None /\ row.tty # "??")),
        terminal_app |-> app, telemetry_source |-> None, extension_pi_telemetry |-> FALSE]

\* lines 149-234: the Agent built from a telemetry instance (process.ppid is not
\* carried by the instances of this model, so ppid comes from the row)
AgentFromTelemetry(inst, rows) ==
    LET known == HasPid(rows, inst.pid)
        row == IF known THEN ByPid(rows, inst.pid) ELSE Absent
        t == IF known THEN row.tty ELSE "??"
        inferred == IF known THEN InferMux(row, rows) ELSE <<None, None>>
        client == IF known THEN FindMuxClientPid(inferred[1], inferred[2], t, rows) ELSE 0
        app == DetectTerminalApp(IF client # 0 THEN client ELSE inst.pid, rows)
    IN [pid |-> inst.pid, ppid |-> IF known THEN row.ppid ELSE 0,
        state |-> IF known THEN row.state ELSE "?", tty |-> t,
        cpu |-> IF known THEN row.cpu ELSE 0,
        activity |-> MapTelemetryActivity(inst.state), confidence |-> "high",
        mux |-> inferred[1], mux_session |-> inferred[2], client_pid |-> client,
        attached_window |-> (client # 0 \/ (app # None /\ t # "??")),
        terminal_app |-> app, telemetry_source |-> "pi-telemetry", extension_pi_telemetry |-> TRUE]

RECURSIVE MapRows(_, _)
\* _agents_from_processes
MapRows(rs, rows) ==
    IF rs = <<>> THEN <<>>
    ELSE IF Head(rs).comm = "pi" THEN <<AgentFromProcess(Head(rs), rows)>> \o MapRows(Tail(rs), rows)
    ELSE MapRows(Tail(rs), rows)

AgentsFromProcesses(rows) == MapRows(rows, rows)

RECURSIVE MapInstances(_, _)
MapInstances(insts, rows) ==
    IF insts = <<>> THEN <<>>
    ELSE IF Head(insts).pid <= 0 THEN MapInstances(Tail(insts), rows)
    ELSE <<AgentFromTelemetry(Head(insts), rows)>> \o MapInstances(Tail(insts), rows)

\* _agents_from_telemetry
AgentsFromTelemetry(insts, rows) == MapInstances(insts, rows)

DictPutKeepFirst(d, a) ==
    IF \E i \in 1..Len(d) : d[i].pid = a.pid THEN d ELSE Append(d, a)
\* merged[a.pid] = a on a dict kept as the list of its values in insertion order
DictPut(d, a) ==
    IF \E i \in 1..Len(d) : d[i].pid = a.pid
    THEN [i \in 1..Len(d) |-> IF d[i].pid = a.pid THEN a ELSE d[i]]
    ELSE Append(d, a)

RECURSIVE DictOf(_, _)
DictOf(d, agents) == IF agents = <<>> THEN d ELSE DictOf(DictPut(d, Head(agents)), Tail(agents))

\* lines 78-86
Merge(process_agents, telemetry_agents) ==
    IF telemetry_agents # <<>>
    THEN DictOf(DictOf(<<>>, process_agents), telemetry_agents)
    ELSE process_agents

RECURSIVE InsertByPid(_, _)
InsertByPid(sorted, a) ==
    IF sorted = <<>> THEN <<a>>
    ELSE IF a.pid < Head(sorted).pid THEN <<a>> \o sorted
    ELSE <<Head(sorted)>> \o InsertByPid(Tail(sorted), a)

RECURSIVE SortFrom(_, _)
SortFrom(sorted, agents) ==
    IF agents = <<>> THEN sorted ELSE SortFrom(InsertByPid(sorted, Head(agents)), Tail(agents))

SortSkipped(agents) == agents
\* agents.sort(key=lambda a: a.pid): stable, ascending
SortByPid(agents) == SortFrom(<<>>, agents)

CountActivity(agents, act) == Cardinality({i \in 1..Len(agents) : agents[i].activity = act})

SummaryOf(total, running, waiting, unknown, color, label) ==
    [total |-> total, running |-> running, waiting_input |-> waiting, unknown |-> unknown,
     color |-> color, label |-> label]

SummarizeGreenOnAnyWaiting(agents) ==
    LET total == Len(agents)
        running == CountActivity(agents, "running")
        waiting == CountActivity(agents, "waiting_input")
        unknown == total - running - waiting
    IN IF total = 0 THEN SummaryOf(total, running, waiting, unknown, "gray", "No Pi agents")
       ELSE IF waiting = 0 /\ unknown = 0
       THEN SummaryOf(total, running, waiting, unknown, "red", "All agents running")
       ELSE IF unknown = 0
       THEN SummaryOf(total, running, waiting, unknown, "green", "All agents waiting for input")
       ELSE SummaryOf(total, running, waiting, unknown, "yellow", "Some agents waiting for input")
\* _summarize
Summarize(agents) ==
    LET total == Len(agents)
        running == CountActivity(agents, "running")
        waiting == CountActivity(agents, "waiting_input")
        unknown == total - running - waiting
    IN IF total = 0 THEN SummaryOf(total, running, waiting, unknown, "gray", "No Pi agents")
       ELSE IF waiting = 0 /\ unknown = 0
       THEN SummaryOf(total, running, waiting, unknown, "red", "All agents running")
       ELSE IF waiting = total /\ unknown = 0
       THEN SummaryOf(total, running, waiting, unknown, "green", "All agents waiting for input")
       ELSE SummaryOf(total, running, waiting, unknown, "yellow", "Some agents waiting for input")

\* lines 75-96 for the rows and telemetry instances read
ScanResult(rows, insts) ==
    LET process_agents == AgentsFromProcesses(rows)
        telemetry_agents == IF insts # <<>> THEN AgentsFromTelemetry(insts, rows) ELSE <<>>
        agents == SortByPid(Merge(process_agents, telemetry_agents))
    IN [ok |-> TRUE, agents |-> agents, summary |-> Summarize(agents), version |-> 2,
        source |-> IF telemetry_agents # <<>> THEN "pi-telemetry" ELSE "process-fallback"]

ScanWith(rows, insts) ==
    /\ scan_result = NoResult
    /\ scan_rows' = rows
    /\ scan_telemetry' = insts
    /\ scan_result' = ScanResult(rows, insts)
    /\ UNCHANGED nonScanVars

\* scan(): telemetry files yield at least one instance
ScanFiles ==
    /\ scan_result = NoResult
    /\ \E files \in TelemetryFileLists :
         /\ ReadFromFiles(files) # <<>>
         /\ \E rows \in ScanTables : ScanWith(rows, ReadFromFiles(files))

\* scan(): no telemetry file is accepted, the CLI fallback is consulted
ScanCli ==
    /\ scan_result = NoResult
    /\ \E files \in TelemetryFileLists :
         /\ ReadFromFiles(files) = <<>>
         /\ \E rows \in ScanTables, cli \in CliOutputs : ScanWith(rows, ReadFromCli(cli))

ScanInit ==
    /\ scan_rows = <<>>
    /\ scan_telemetry = <<>>
    /\ scan_result = NoResult

----------------------------------------------------------------------------
(* HTTP gateway (pi_statusd_http.py): configuration, authorization, limiter *)

\* RateLimiter.allow: the window in seconds
RateWindowSeconds == 10
\* do_POST: largest Content-Length and longest cleaned message accepted
MaxBodyBytes == 100000
MaxMessageChars == 4000

\* client addresses: loopback, inside 10.0.0.0/8, outside every network of the
\* model, and "" (no client_address)
Ips == {"127.0.0.1", "10.0.0.5", "192.168.1.9", ""}

\* ipaddress.ip_address(ip) does not raise
IpParses(ip) == ip # ""
\* Handler._is_loopback
IsLoopback(ip) == IpParses(ip) /\ ip = "127.0.0.1"
\* ipaddress.ip_network(c, strict=False) does not raise
CidrParses(c) == c \in {"10.0.0.0/8", "127.0.0.0/8"}
\* addr in ipaddress.ip_network(c)
InNetwork(ip, c) ==
    \/ c = "10.0.0.0/8" /\ ip = "10.0.0.5"
    \/ c = "127.0.0.0/8" /\ ip = "127.0.0.1"

\* Handler._cidr_allowed
CidrAllowed(ip, cidrs) ==
    IF cidrs = <<>> THEN TRUE
    ELSE IF ~IpParses(ip) THEN FALSE
    ELSE \E i \in 1..Len(cidrs) : CidrParses(cidrs[i]) /\ InNetwork(ip, cidrs[i])

\* values of the Authorization header ("" when absent) and of X-Statusd-Token
AuthHeaders == {"", "Bearer t", "Bearer  t ", "Bearer x", "bearer t"}
TokenHeaders == {"", "t", "x"}

\* auth.startswith("Bearer ")
StartsWithBearer(h) == h \in {"Bearer t", "Bearer  t ", "Bearer x"}
\* auth[len("Bearer "):].strip()
BearerValue(h) == IF h \in {"Bearer t", "Bearer  t "} THEN "t" ELSE "x"
\* self.headers.get("X-Statusd-Token", "").strip()
StripHeader(h) == IF h = " t " THEN "t" ELSE h

AuthorizedIgnoringCidr(req, c) ==
    IF c.allow_loopback_unauth /\ IsLoopback(req.ip) THEN TRUE
    ELSE IF c.token = None THEN FALSE
    ELSE IF StartsWithBearer(req.auth) THEN BearerValue(req.auth) = c.token
    ELSE StripHeader(req.xtoken) = c.token
\* Handler._authorized
Authorized(req, c) ==
    IF ~CidrAllowed(req.ip, c.allow_cidrs) THEN FALSE
    ELSE IF c.allow_loopback_unauth /\ IsLoopback(req.ip) THEN TRUE
    ELSE IF c.token = None THEN FALSE
    ELSE IF StartsWithBearer(req.auth) THEN BearerValue(req.auth) = c.token
    ELSE StripHeader(req.xtoken) = c.token

\* apply_shared_server_state: what a listener keeps of the configuration
Configs ==
    [token : {None, "t"},
     allow_cidrs : {<<>>, <<"10.0.0.0/8">>, <<"bogus", "127.0.0.0/8">>},
     allow_loopback_unauth : BOOLEAN,
     limit : 1..MaxLimit]

RECURSIVE Prune(_, _)
\* while q and (now - q[0]) > 10.0: q.popleft()
Prune(q, now) ==
    IF q # <<>> /\ now - Head(q) > RateWindowSeconds THEN Prune(Tail(q), now) ELSE q

LimiterAllowsAlways(q, now, limit) == TRUE
\* RateLimiter.allow: the value returned
LimiterAllows(q, now, limit) == ~(Len(Prune(q, now)) >= limit)
\* RateLimiter.allow: the deque afterwards
LimiterAfter(q, now, limit) ==
    IF LimiterAllows(q, now, limit) THEN Append(Prune(q, now), now) ELSE Prune(q, now)

\* an HTTP response: status code and the ok / error members of its JSON body
Response(code, ok, error) == [code |-> code, ok |-> ok, error |-> error]
NoResponse == [code |-> -1]
\* the handler raised before writing anything: the connection is closed without a response
Dropped == [code |-> 0]
NoRequest == [method |-> None]

Unauthorized == Response(401, FALSE, "unauthorized")
NotFound == Response(404, FALSE, "not found")

\* what request_socket does for one call: connect() raises, the daemon closes
\* without writing, it writes text that is no JSON, or it writes a JSON object
Unreachable == [up |-> "unreachable"]
EmptyReply == [up |-> "empty"]
GarbageReply == [up |-> "garbage"]
Reply(body) == [up |-> "json", body |-> body]

\* f"daemon unavailable: {e}"
DaemonUnavailable == Response(502, FALSE, "daemon unavailable")
\* {"ok": False, "error": "empty daemon response"}
EmptyDaemonResponse == [ok |-> FALSE, error |-> "empty daemon response"]

\* request_socket(req): the dict returned, or raised
RequestSocket(up) ==
    CASE up.up = "unreachable" -> [raised |-> TRUE]
      [] up.up = "garbage" -> [raised |-> TRUE]
      [] up.up = "empty" -> [raised |-> FALSE, value |-> EmptyDaemonResponse]
      [] up.up = "json" -> [raised |-> FALSE, value |-> up.body]

----------------------------------------------------------------------------
(* HTTP gateway: POST /send *)

\* the Content-Length header: absent, not a number, or a number
NoLength == [given |-> FALSE]
LengthText == [given |-> TRUE, numeric |-> FALSE]
LengthOf(n) == [given |-> TRUE, numeric |-> TRUE, value |-> n]
\* int(self.headers.get("Content-Length", "0")), 0 on ValueError
ParseLength(cl) == IF cl.given /\ cl.numeric THEN cl.value ELSE 0

\* a string as runs of one character: <<[c |-> "a", n |-> 4000]>> is "a" * 4000
Run(c, n) == [c |-> c, n |-> n]
RECURSIVE RunsLen(_)
RunsLen(runs) == IF runs = <<>> THEN 0 ELSE Head(runs).n + RunsLen(Tail(runs))

\* msg.replace("\n", " "), then the separators of str.split()
IsBlank(c) == c \in {" ", "\n", "\t"}

RECURSIVE CleanFrom(_, _, _)
CleanFrom(runs, acc, gap) ==
    IF runs = <<>> THEN acc
    ELSE IF IsBlank(Head(runs).c) \/ Head(runs).n = 0
    THEN CleanFrom(Tail(runs), acc, gap \/ acc # <<>>)
    ELSE CleanFrom(Tail(runs), (IF gap THEN Append(acc, Run(" ", 1)) ELSE acc) \o <<Head(runs)>>, FALSE)

\* " ".join(msg.replace("\n", " ").split()).strip()
Cleaned(runs) == CleanFrom(runs, <<>>, FALSE)

\* JSON values of the members pid and message
Missing == [t |-> "absent"]
JInt(n) == [t |-> "int", v |-> n]
JBool(b) == [t |-> "bool", v |-> b]
JFloat == [t |-> "float"]
JStr(runs) == [t |-> "str", runs |-> runs]

\* isinstance(pid, int): bool is a subclass of int
IsInstanceInt(v) == v.t \in {"int", "bool"}
\* the value compared with 0
AsInt(v) == IF v.t = "bool" THEN (IF v.v THEN 1 ELSE 0) ELSE v.v
\* f"{pid}"
PidText(v) == IF v.t = "bool" THEN (IF v.v THEN "True" ELSE "False") ELSE ToString(v.v)

\* what json.loads(raw) yields: raises, a value that is no object, or an object
Unparsable == [kind |-> "unparsable"]
NonObject(k) == [kind |-> k]
Object(p, m) == [kind |-> "object", pid |-> p, message |-> m]

Words == <<Run("a", 2)>>
TwoLines == <<Run(" ", 1), Run("a", 1), Run("\n", 2), Run("b", 1), Run("\t", 1)>>
SmallBodies ==
    {Unparsable, NonObject("list"), NonObject("null"), NonObject("string"),
     Object(Missing, JStr(Words)), Object(JInt(0), JStr(Words)), Object(JInt(-1), JStr(Words)),
     Object(JBool(TRUE), JStr(Words)), Object(JFloat, JStr(Words)),
     Object(JStr(<<Run("1", 1)>>), JStr(Words)),
     Object(JInt(1), Missing), Object(JInt(1), JInt(5)),
     Object(JInt(1), JStr(<<>>)), Object(JInt(1), JStr(<<Run(" ", 2), Run("\n", 1)>>)),
     Object(JInt(1), JStr(Words)), Object(JInt(2), JStr(TwoLines))}
LargeBodies ==
    {Object(JInt(1), JStr(<<Run("a", MaxMessageChars)>>)),
     Object(JInt(1), JStr(<<Run("a", MaxMessageChars + 1)>>)),
     Object(JInt(1), JStr(<<Run("a", 2000), Run(" ", 5), Run("b", 1999)>>)),
     Object(JInt(1), JStr(<<Run("a", 2000), Run(" ", 5), Run("b", 2000)>>)),
     Object(JInt(1), JStr(<<Run(" ", 90000), Run("a", 1)>>))}

\* Content-Length and body sent together
PostBodies ==
    [length : {NoLength, LengthText, LengthOf(0), LengthOf(-1), LengthOf(40)}, json : {Object(JInt(1), JStr(Words))}]
    \cup [length : {LengthOf(40)}, json : SmallBodies]
    \cup [length : {LengthOf(MaxBodyBytes - 1), LengthOf(MaxBodyBytes), LengthOf(MaxBodyBytes + 1)},
          json : LargeBodies]

\* one call of request_socket: the line written and what came of it
Exchange(line, up) == [line |-> line, up |-> up]

SendLine(p, cleaned) == [cmd |-> "send", pid |-> p, text |-> cleaned]

\* the daemon's answers to a send
SendReplies == {Unreachable, EmptyReply, GarbageReply,
                Reply([ok |-> TRUE, error |-> None]), Reply([ok |-> FALSE, error |-> "pi pid not found"])}

\* lines 589-592
Forward(line, up) ==
    LET got == RequestSocket(up)
    IN [sent |-> <<Exchange(line, up)>>,
        resp |-> IF got.raised THEN DaemonUnavailable
                 ELSE Response(200, got.value.ok, got.value.error)]

Reject(error) == [sent |-> <<>>, resp |-> Response(400, FALSE, error)]

\* line 574: the pid is accepted
PidCheck(v) == IsInstanceInt(v) /\ ~(AsInt(v) <= 0)

\* lines 557-592: the body of an admitted POST /send
PostSend(body, up) ==
    LET length == ParseLength(body.length)
    IN IF length <= 0 \/ length > MaxBodyBytes THEN Reject("invalid body")
       ELSE IF body.json.kind = "unparsable" THEN Reject("invalid json")
       ELSE IF body.json.kind # "object" THEN [sent |-> <<>>, resp |-> Dropped]
       ELSE IF ~PidCheck(body.json.pid) THEN Reject("invalid pid")
       ELSE IF body.json.message.t # "str" THEN Reject("invalid message")
       ELSE LET cleaned == Cleaned(body.json.message.runs)
            IN IF cleaned = <<>> THEN Reject("message is empty")
               ELSE IF RunsLen(cleaned) > MaxMessageChars THEN Reject("message too long")
               ELSE Forward(SendLine(PidText(body.json.pid), cleaned), up)

\* parsed.path.rstrip("/")
RStripSlash(path) ==
    CASE path = "/send/" -> "/send"
      [] path = "/status/" -> "/status"
      [] path = "/" -> ""
      [] OTHER -> path

----------------------------------------------------------------------------
(* HTTP gateway: status payloads and fingerprints *)

\* an agent of a daemon status reply: text is latest_message_full ("" when
\* absent), at is latest_message_at (0 when absent)
HAgent(p, act, t, at) == [pid |-> p, activity |-> act, text |-> t, at |-> at]

Fleets ==
    {<<>>,
     <<HAgent(1, "running", "", 0)>>,
     <<HAgent(1, "waiting_input", "", 0)>>,
     <<HAgent(1, "running", "hi", 5)>>,
     <<HAgent(1, "waiting_input", "hi", 5)>>,
     <<HAgent(2, "waiting_input", "", 0), HAgent(1, "running", "", 0)>>}

StatusReply(agents) == Reply([ok |-> TRUE, error |-> None, agents |-> agents])
\* the daemon's answers to "status"
StatusReplies == {Unreachable, EmptyReply, GarbageReply} \cup {StatusReply(f) : f \in Fleets}

NoId == [id |-> FALSE]
\* _agent_message_id: sha1 of pid|at|text, kept as the triple it hashes
MessageId(a) ==
    IF a.text = "" /\ a.at = 0 THEN NoId
    ELSE [id |-> TRUE, pid |-> a.pid, at |-> a.at, text |-> a.text]

\* the dict that both fingerprints hash
Compact(a) == [pid |-> a.pid, activity |-> a.activity, latest_message_id |-> a.latest_message_id]

\* sha1 digests, kept as what they hash
Digest(kind, items) == [kind |-> kind, items |-> items]
\* _agent_fingerprint
AgentFingerprint(a) == Digest("agent", <<Compact(a)>>)

CompactAll(agents) == [i \in 1..Len(agents) |-> Compact(agents[i])]
\* _status_fingerprint of the HTTP gateway
HttpStatusFingerprintUnsorted(agents) == Digest("status", CompactAll(agents))
HttpStatusFingerprint(agents) == Digest("status", SortFrom(<<>>, CompactAll(agents)))

\* a = dict(item); a["latest_message_id"] = _agent_message_id(a)
WithMessageId(a) == [latest_message_id |-> MessageId(a)] @@ a

\* _normalize_status_payload
Normalize(raw) ==
    LET raw_agents == IF "agents" \in DOMAIN raw THEN raw.agents ELSE <<>>
        agents == [i \in 1..Len(raw_agents) |-> WithMessageId(raw_agents[i])]
    IN [ok |-> raw.ok, error |-> raw.error, agents |-> agents,
        fingerprint |-> HttpStatusFingerprint(agents)]

NoAgent == [pid |-> 0]
\* _find_agent
FindAgent(status, p) ==
    LET idx == {i \in 1..Len(status.agents) : status.agents[i].pid = p}
    IN IF idx = {} THEN NoAgent ELSE status.agents[CHOOSE i \in idx : \A j \in idx : i <= j]

ClassifyActivityFirst(prev, curr) ==
    IF prev.activity # curr.activity THEN "activity_changed"
    ELSE IF prev.latest_message_id # curr.latest_message_id THEN "message_updated"
    ELSE "agent_updated"
\* _classify_agent_event
ClassifyAgentEvent(prev, curr) ==
    IF prev.latest_message_id # curr.latest_message_id THEN "message_updated"
    ELSE IF prev.activity # curr.activity THEN "activity_changed"
    ELSE "agent_updated"

\* the fingerprint query parameter / the Last-Event-ID header: absent or a value
NoSince == [given |-> FALSE, pid |-> 0, fp |-> Digest("none", <<>>)]
SinceOf(fp) == [given |-> TRUE, pid |-> 0, fp |-> fp]
\* f"{pid}:{fp}"
EventId(p, fp) == [given |-> TRUE, pid |-> p, fp |-> fp]

----------------------------------------------------------------------------
(* HTTP gateway: requests *)

Creds == [ip : Ips, auth : AuthHeaders, xtoken : TokenHeaders]
BasicCreds ==
    {[ip |-> "127.0.0.1", auth |-> "", xtoken |-> ""],
     [ip |-> "10.0.0.5", auth |-> "Bearer t", xtoken |-> ""],
     [ip |-> "192.168.1.9", auth |-> "", xtoken |-> "t"]}

NoBody == [length |-> NoLength, json |-> Unparsable]
Target(method, path, body, since, sse) ==
    [method |-> method, path |-> path, body |-> body, since |-> since, sse |-> sse]

GlobalSinces ==
    {NoSince, SinceOf(HttpStatusFingerprint(<<>>)),
     SinceOf(HttpStatusFingerprint(<<WithMessageId(HAgent(1, "running", "", 0))>>))}
AgentSinces ==
    {NoSince, SinceOf(AgentFingerprint(WithMessageId(HAgent(1, "running", "", 0)))),
     SinceOf(AgentFingerprint(WithMessageId(HAgent(1, "running", "old", 1))))}
LastEventIds ==
    {NoSince, EventId(1, AgentFingerprint(WithMessageId(HAgent(1, "running", "", 0)))),
     EventId(1, AgentFingerprint(WithMessageId(HAgent(1, "running", "old", 1))))}

GetTargets ==
    {Target("GET", p, NoBody, NoSince, FALSE) :
        p \in {"/", "/health", "/tls", "/status", "/status/", "/other", "/watch/x"}}
    \cup {Target("GET", "/watch", NoBody, s, FALSE) : s \in GlobalSinces}
    \cup {Target("GET", "/watch/1", NoBody, s, FALSE) : s \in AgentSinces}
    \cup {Target("GET", "/watch/1", NoBody, s, TRUE) : s \in LastEventIds}
PostTargets ==
    {Target("POST", p, b, NoSince, FALSE) : p \in {"/send", "/send/"}, b \in PostBodies}
    \cup {Target("POST", "/status", NoBody, NoSince, FALSE)}
BasicTargets ==
    {Target("GET", p, NoBody, NoSince, FALSE) : p \in {"/", "/status", "/watch", "/watch/1", "/other"}}
    \cup {Target("GET", "/watch/1", NoBody, NoSince, TRUE),
          Target("POST", "/send", [length |-> LengthOf(40), json |-> Object(JInt(1), JStr(Words))], NoSince, FALSE),
          Target("POST", "/other", NoBody, NoSince, FALSE)}

Request(c, t) ==
    [ip |-> c.ip, auth |-> c.auth, xtoken |-> c.xtoken, method |-> t.method, path |-> t.path,
     body |-> t.body, since |-> t.since, sse |-> t.sse]

HttpRequests ==
    {Request(c, t) : c \in Creds, t \in BasicTargets}
    \cup {Request(c, t) : c \in BasicCreds, t \in GetTargets \cup PostTargets}

----------------------------------------------------------------------------
(* HTTP gateway: GET *)

NoLocal == [kind |-> None]
StatusLine == [cmd |-> "status"]

Finish(resp, sent) ==
    /\ http_pc' = "done"
    /\ http_resp' = resp
    /\ http_sent' = sent
    /\ http_local' = NoLocal

Ok200 == Response(200, TRUE, None)
WatchResponse(event, fp) ==
    [code |-> 200, ok |-> TRUE, error |-> None, event |-> event, fingerprint |-> fp]
\* a /watch response that carries the status it was computed from
WatchSnapshot(event, status) ==
    [code |-> 200, ok |-> TRUE, error |-> None, event |-> event,
     fingerprint |-> status.fingerprint, status |-> status]
\* _watch_global, lines 338-357: the change records of one agent of the current status
ChangesOf(before, agent) ==
    LET activity == [event |-> "activity_changed", pid |-> agent.pid, activity |-> agent.activity]
        message == [event |-> "message_updated", pid |-> agent.pid,
                    latest_message_id |-> agent.latest_message_id]
    IN IF before = NoAgent
       THEN <<activity>> \o (IF agent.latest_message_id # NoId THEN <<message>> ELSE <<>>)
       ELSE (IF before.activity # agent.activity THEN <<activity>> ELSE <<>>)
            \o (IF before.latest_message_id # agent.latest_message_id THEN <<message>> ELSE <<>>)
\* the loop over curr_agents
RECURSIVE Changes(_, _)
Changes(start_status, agents) ==
    IF agents = <<>> THEN <<>>
    ELSE ChangesOf(FindAgent(start_status, Head(agents).pid), Head(agents))
         \o Changes(start_status, Tail(agents))
\* the status_changed response of /watch
WatchChanged(start_status, curr) ==
    [code |-> 200, ok |-> TRUE, error |-> None, event |-> "status_changed",
     fingerprint |-> curr.fingerprint, changes |-> Changes(start_status, curr.agents),
     status |-> curr]
\* a /watch/<pid> response that carries the agent it was computed from
AgentSnapshot(event, agent) ==
    [code |-> 200, ok |-> TRUE, error |-> None, event |-> event, pid |-> agent.pid,
     fingerprint |-> AgentFingerprint(agent), agent |-> agent]

OutOfSyncNever(since, start_fp) == FALSE
\* since != start_fp / since != fp0
OutOfSync(since, start_fp) == since # start_fp
FingerprintSame(curr_fp, start_fp) == FALSE
\* curr_fp != start_fp
FingerprintDiffers(curr_fp, start_fp) == curr_fp # start_fp
\* an event-stream response: the status line and headers are out, events follow
Stream(events) == [code |-> 200, ok |-> TRUE, error |-> None, sse |-> TRUE, events |-> events]
\* one event of the stream: its event line, its id line and the fingerprint of its data
Event(name, id, fp) == [event |-> name, id |-> id, fingerprint |-> fp]
\* the data of error and agent_gone events has no fingerprint
NoFingerprint == Digest("none", <<>>)
\* an event written without an id line (do_GET writes "event: error" itself)
NoEventId == [given |-> FALSE, pid |-> 0, fp |-> NoFingerprint]
\* f"{pid}:error" and f"{pid}:gone": a word stands where the fingerprint would
WordId(p, word) == [given |-> TRUE, pid |-> p, fp |-> Digest(word, <<>>)]
\* the event written by do_GET when the stream handler raised
RaisedEvent == Event("error", NoEventId, NoFingerprint)

BootstrapAlways(last_event_id, p, prev_fp) ==
    IF last_event_id # EventId(p, prev_fp) THEN <<Event("out_of_sync", EventId(p, prev_fp), prev_fp)>>
    ELSE <<Event("snapshot", EventId(p, prev_fp), prev_fp)>>
\* _watch_pid_sse: the resume-friendly bootstrap
Bootstrap(last_event_id, p, prev_fp) ==
    IF ~last_event_id.given THEN <<Event("snapshot", EventId(p, prev_fp), prev_fp)>>
    ELSE IF last_event_id # EventId(p, prev_fp) THEN <<Event("out_of_sync", EventId(p, prev_fp), prev_fp)>>
    ELSE <<>>

\* do_POST
HttpPost(reqs) ==
    /\ http_pc = "idle"
    /\ \E req \in reqs :
         /\ req.method = "POST"
         /\ http_req' = req
         /\ recent_before' = recent
         /\ http_pc' = "done"
         /\ http_local' = NoLocal
         /\ IF ~Authorized(req, cfg)
            THEN http_resp' = Unauthorized /\ http_sent' = <<>> /\ UNCHANGED <<recent, admitted>>
            ELSE IF RStripSlash(req.path) # "/send"
            THEN http_resp' = NotFound /\ http_sent' = <<>> /\ UNCHANGED <<recent, admitted>>
            ELSE /\ recent' = [recent EXCEPT ![req.ip] = LimiterAfter(@, clock, cfg.limit)]
                 /\ IF ~LimiterAllows(recent[req.ip], clock, cfg.limit)
                    THEN /\ http_resp' = Response(429, FALSE, "send rate limit exceeded")
                         /\ http_sent' = <<>>
                         /\ UNCHANGED admitted
                    ELSE /\ admitted' = [admitted EXCEPT ![req.ip][clock] = @ + 1]
                         /\ \E up \in SendReplies :
                              /\ http_resp' = PostSend(req.body, up).resp
                              /\ http_sent' = PostSend(req.body, up).sent
         /\ UNCHANGED <<cfg, clock, nonHttpVars>>

GetStarts(req) ==
    /\ http_pc = "idle"
    /\ req.method = "GET"
    /\ http_req' = req
    /\ recent_before' = recent
    /\ UNCHANGED <<cfg, clock, recent, admitted, nonHttpVars>>

\* path.split("/")[-1] parsed by int(): 0 stands for ValueError
WatchPid(path) == IF path = "/watch/1" THEN 1 ELSE 0

\* do_GET: 401, the endpoints that need no daemon, 404 and an unparsable /watch/<pid>
HttpGetLocal(reqs) ==
    /\ http_pc = "idle"
    /\ \E req \in reqs :
         /\ GetStarts(req)
         /\ LET path == RStripSlash(req.path)
            IN IF ~Authorized(req, cfg) THEN Finish(Unauthorized, <<>>)
               ELSE /\ path \notin {"/status", "/watch", "/watch/1"}
                    /\ IF path \in {"", "/health", "/tls"} THEN Finish(Ok200, <<>>)
                       ELSE IF path = "/watch/x" THEN Finish(Response(400, FALSE, "invalid pid"), <<>>)
                       ELSE Finish(NotFound, <<>>)

\* do_GET: /status
HttpGetStatus(reqs) ==
    /\ http_pc = "idle"
    /\ \E req \in reqs :
         /\ GetStarts(req)
         /\ Authorized(req, cfg)
         /\ RStripSlash(req.path) = "/status"
         /\ \E up \in StatusReplies :
              LET got == RequestSocket(up)
              IN IF got.raised THEN Finish(DaemonUnavailable, <<Exchange(StatusLine, up)>>)
                 ELSE Finish(Response(200, Normalize(got.value).ok, Normalize(got.value).error),
                             <<Exchange(StatusLine, up)>>)

\* do_GET: /watch, up to the polling loop of _watch_global
HttpWatchStart(reqs) ==
    /\ http_pc = "idle"
    /\ \E req \in reqs :
         /\ GetStarts(req)
         /\ Authorized(req, cfg)
         /\ RStripSlash(req.path) = "/watch"
         /\ \E up \in StatusReplies :
              LET got == RequestSocket(up)
                  start == Normalize(got.value)
              IN IF got.raised THEN Finish(DaemonUnavailable, <<Exchange(StatusLine, up)>>)
                 ELSE IF ~req.since.given THEN Finish(WatchSnapshot("snapshot", start), <<Exchange(StatusLine, up)>>)
                 ELSE IF OutOfSync(req.since.fp, start.fingerprint)
                 THEN Finish(WatchSnapshot("out_of_sync", start), <<Exchange(StatusLine, up)>>)
                 ELSE /\ http_pc' = "polling"
                      /\ http_local' = [kind |-> "global", fp |-> start.fingerprint, polls |-> 0,
                                         status |-> start]
                      /\ http_resp' = NoResponse
                      /\ http_sent' = <<Exchange(StatusLine, up)>>

\* do_GET: /watch/<pid> without event-stream, up to the loop of _watch_pid_long_poll
HttpWatchPidStart(reqs) ==
    /\ http_pc = "idle"
    /\ \E req \in reqs :
         /\ GetStarts(req)
         /\ Authorized(req, cfg)
         /\ RStripSlash(req.path) = "/watch/1"
         /\ ~req.sse
         /\ \E up \in StatusReplies :
              LET got == RequestSocket(up)
                  agent0 == FindAgent(Normalize(got.value), WatchPid(req.path))
                  fp0 == AgentFingerprint(agent0)
              IN IF got.raised THEN Finish(DaemonUnavailable, <<Exchange(StatusLine, up)>>)
                 ELSE IF agent0 = NoAgent THEN Finish(Response(404, FALSE, "pid not found"), <<Exchange(StatusLine, up)>>)
                 ELSE IF ~req.since.given THEN Finish(AgentSnapshot("snapshot", agent0), <<Exchange(StatusLine, up)>>)
                 ELSE IF OutOfSync(req.since.fp, fp0) THEN Finish(AgentSnapshot("out_of_sync", agent0), <<Exchange(StatusLine, up)>>)
                 ELSE /\ http_pc' = "polling"
                      /\ http_local' = [kind |-> "pid", fp |-> fp0, agent |-> agent0, polls |-> 0]
                      /\ http_resp' = NoResponse
                      /\ http_sent' = <<Exchange(StatusLine, up)>>

\* do_GET: /watch/<pid> with Accept: text/event-stream, up to the loop of _watch_pid_sse
HttpSseStart(reqs) ==
    /\ http_pc = "idle"
    /\ \E req \in reqs :
         /\ GetStarts(req)
         /\ Authorized(req, cfg)
         /\ RStripSlash(req.path) = "/watch/1"
         /\ req.sse
         /\ \E up \in StatusReplies :
              LET got == RequestSocket(up)
                  p == WatchPid(req.path)
                  agent == FindAgent(Normalize(got.value), p)
                  fp == AgentFingerprint(agent)
                  first == Bootstrap(req.since, p, fp)
              IN IF got.raised THEN Finish(Stream(<<RaisedEvent>>), <<Exchange(StatusLine, up)>>)
                 ELSE IF agent = NoAgent
                 THEN Finish(Stream(<<Event("error", WordId(p, "error"), NoFingerprint)>>),
                             <<Exchange(StatusLine, up)>>)
                 ELSE /\ http_pc' = "polling"
                      /\ http_local' = [kind |-> "sse", fp |-> fp, agent |-> agent, polls |-> 0]
                      /\ http_resp' = Stream(first)
                      /\ http_sent' = <<Exchange(StatusLine, up)>>

Polling(kind) ==
    /\ http_pc = "polling"
    /\ http_local.kind = kind
    /\ UNCHANGED <<cfg, clock, recent, admitted, http_req, recent_before, nonHttpVars>>

PollAgain == http_local.polls < MaxPolls

\* _watch_global: one pass of the loop
HttpWatchPoll ==
    /\ Polling("global")
    /\ PollAgain
    /\ \E up \in StatusReplies :
         LET got == RequestSocket(up)
             curr == Normalize(got.value)
             sent == Append(http_sent, Exchange(StatusLine, up))
         IN IF got.raised THEN Finish(DaemonUnavailable, sent)
            ELSE IF FingerprintDiffers(curr.fingerprint, http_local.fp)
            THEN Finish(WatchChanged(http_local.status, curr), sent)
            ELSE /\ http_local' = [http_local EXCEPT !.polls = @ + 1]
                 /\ http_sent' = sent
                 /\ UNCHANGED <<http_pc, http_resp>>

\* _watch_pid_long_poll: one pass of the loop
HttpWatchPidPoll ==
    /\ Polling("pid")
    /\ PollAgain
    /\ \E up \in StatusReplies :
         LET got == RequestSocket(up)
             curr == FindAgent(Normalize(got.value), http_local.agent.pid)
             sent == Append(http_sent, Exchange(StatusLine, up))
         IN IF got.raised THEN Finish(DaemonUnavailable, sent)
            ELSE IF curr = NoAgent
            THEN Finish([code |-> 200, ok |-> TRUE, error |-> None, event |-> "agent_gone",
                         pid |-> http_local.agent.pid], sent)
            ELSE IF FingerprintDiffers(AgentFingerprint(curr), http_local.fp)
            THEN Finish(AgentSnapshot(ClassifyAgentEvent(http_local.agent, curr), curr), sent)
            ELSE /\ http_local' = [http_local EXCEPT !.polls = @ + 1]
                 /\ http_sent' = sent
                 /\ UNCHANGED <<http_pc, http_resp>>

\* the deadline of a long-poll has passed: event=timeout with the first fingerprint
HttpWatchDeadline ==
    /\ \/ Polling("global")
       \/ Polling("pid")
    /\ Finish(WatchResponse("timeout", http_local.fp), http_sent)

AddEvent(e) == Stream(Append(http_resp.events, e))

\* _watch_pid_sse: one pass of the loop (keepalive comments are not events)
HttpSsePoll ==
    /\ Polling("sse")
    /\ PollAgain
    /\ \E up \in StatusReplies :
         LET got == RequestSocket(up)
             p == http_local.agent.pid
             curr == FindAgent(Normalize(got.value), p)
             sent == Append(http_sent, Exchange(StatusLine, up))
         IN IF got.raised THEN Finish(AddEvent(RaisedEvent), sent)
            ELSE IF curr = NoAgent
            THEN Finish(AddEvent(Event("agent_gone", WordId(p, "gone"), NoFingerprint)), sent)
            ELSE /\ IF AgentFingerprint(curr) # http_local.fp
                    THEN /\ http_resp' = AddEvent(Event(ClassifyAgentEvent(http_local.agent, curr),
                                                        EventId(p, AgentFingerprint(curr)),
                                                        AgentFingerprint(curr)))
                         /\ http_local' = [http_local EXCEPT !.polls = @ + 1, !.agent = curr,
                                                             !.fp = AgentFingerprint(curr)]
                    ELSE /\ http_local' = [http_local EXCEPT !.polls = @ + 1]
                         /\ UNCHANGED http_resp
                 /\ http_sent' = sent
                 /\ UNCHANGED http_pc

\* the client of an event stream went away: the next write raises BrokenPipeError
HttpSseClosed ==
    /\ Polling("sse")
    /\ Finish(http_resp, http_sent)

\* the handler has returned; the listener takes the next request
HttpReturn ==
    /\ http_pc = "done"
    /\ http_pc' = "idle"
    /\ http_req' = NoRequest
    /\ http_resp' = NoResponse
    /\ http_sent' = <<>>
    /\ http_local' = NoLocal
    /\ recent_before' = recent
    /\ UNCHANGED <<cfg, clock, recent, admitted, nonHttpVars>>

\* the steps of the clock, in seconds
TickSeconds == {5, 6}

\* time.time() moves on between two requests
Tick ==
    /\ http_pc = "idle"
    /\ \E d \in TickSeconds :
         /\ clock + d <= MaxTime
         /\ clock' = clock + d
    /\ UNCHANGED <<cfg, recent, admitted, http_pc, http_req, http_resp, http_sent, http_local,
                   recent_before, nonHttpVars>>

Times == 0..MaxTime

\* the gateway process is not started yet
NoConfig == [loaded |-> FALSE]

\* main: load_config, then apply_shared_server_state and serve_forever
HttpStart ==
    /\ http_pc = "down"
    /\ cfg' \in Configs
    /\ http_pc' = "idle"
    /\ UNCHANGED <<clock, recent, admitted, http_req, http_resp, http_sent, http_local,
                   recent_before, nonHttpVars>>

HttpInit ==
    /\ cfg = NoConfig
    /\ clock = 0
    /\ recent = [ip \in Ips |-> <<>>]
    /\ admitted = [ip \in Ips |-> [t \in Times |-> 0]]
    /\ http_pc = "down"
    /\ http_req = NoRequest
    /\ http_resp = NoResponse
    /\ http_sent = <<>>
    /\ http_local = NoLocal
    /\ recent_before = [ip \in Ips |-> <<>>]

----------------------------------------------------------------------------
(* Socket server (pi_statusd.py): run_server, handle_client, parse_request *)

\* a request line after strip(): its whitespace-delimited words, and whether the
\* first separator is a space (" ") or a tab
W(s) == [w |-> s]
Line(words, sep) == [words |-> words, sep |-> sep]

\* an agent of a scan, as _status_fingerprint reads it: latest_message is None or
\* its words (one space between two words)
SAgent(p, act, msg, at) == [pid |-> p, activity |-> act, latest_message |-> msg, latest_message_at |-> at]
NoMessage == <<>>
SockFleets ==
    {<<>>,
     <<SAgent(1, "running", NoMessage, 0)>>,
     <<SAgent(1, "waiting_input", NoMessage, 0)>>,
     <<SAgent(1, "running", <<"done">>, 5)>>,
     <<SAgent(1, "running", <<"all", "done">>, 5)>>}

RECURSIVE SpacesIn(_)
\* the spaces of json.dumps(slim, separators=(",", ":")): those inside the messages
SpacesIn(agents) ==
    IF agents = <<>> THEN 0
    ELSE (IF Head(agents).latest_message = NoMessage THEN 0 ELSE Len(Head(agents).latest_message) - 1)
         + SpacesIn(Tail(agents))

\* a text as the chunks str.split() cuts it into: chunk k of n of the JSON text of slim
Chunk(slim, k, n) == [of |-> slim, part |-> k, parts |-> n]
\* _status_fingerprint of the socket daemon
SockFingerprint(agents) ==
    LET slim == SortFrom(<<>>, agents)
        n == 1 + SpacesIn(slim)
    IN [k \in 1..n |-> Chunk(slim, k, n)]

StaleFingerprint == <<Chunk(<<SAgent(9, "running", NoMessage, 0)>>, 1, 1)>>

\* "watch <timeout_ms> <fingerprint>" as a client writes it
WatchLine(ms, fp) == Line(<<W("watch"), W(ms)>> \o fp, " ")

SockLines ==
    {Line(<<>>, " "), Line(<<W("status")>>, " "), Line(<<W("ping")>>, " "),
     Line(<<W("status"), W("5")>>, " "),
     Line(<<W("jump")>>, " "), Line(<<W("jump"), W("5")>>, " "), Line(<<W("jump"), W("x")>>, " "),
     Line(<<W("jump"), W("5"), W("6")>>, " "), Line(<<W("jump"), W("5")>>, "\t"),
     Line(<<W("latest"), W("5")>>, " "), Line(<<W("latest"), W("x")>>, " "),
     Line(<<W("send"), W("5")>>, " "), Line(<<W("send"), W("5"), W("hi")>>, " "),
     Line(<<W("send"), W("x"), W("hi")>>, " "), Line(<<W("send"), W("5"), W("hi"), W("you")>>, " "),
     Line(<<W("watch")>>, " "), Line(<<W("watch"), W("500")>>, " "), Line(<<W("watch"), W("x")>>, " "),
     Line(<<W("watch"), W("500")>>, "\t"),
     Line(<<W("watchdog")>>, " "), Line(<<W("watchdog"), W("500")>>, " "),
     Line(<<W("bogus")>>, " "), Line(<<W("bogus"), W("5")>>, " "),
     WatchLine("500", StaleFingerprint)}
    \cup {WatchLine("500", SockFingerprint(f)) : f \in SockFleets}

\* int(s) does not raise ValueError
IsIntText(w) == w \in {W("5"), W("500"), W("6")}

\* req.startswith(prefix) for the prefixes parse_request tests
StartsWithWord(line, word) ==
    /\ Len(line.words) >= 2
    /\ line.words[1] = W(word)
    /\ line.sep = " "
StartsWithWatch(line) == line.words # <<>> /\ line.words[1] \in {W("watch"), W("watchdog")}

SockOk == [ok |-> TRUE]
SockError(e) == [ok |-> FALSE, error |-> e]
UnknownRequest(line) == [ok |-> FALSE, error |-> "unknown request", req |-> line]
StatusDict(agents) == [ok |-> TRUE, agents |-> agents]
WatchEvent(event, fp, agents) ==
    [ok |-> TRUE, event |-> event, fingerprint |-> fp, status |-> StatusDict(agents)]

\* what a call of scanner.jump / latest_message / send_message does: a dict, or raises
ScannerOutcomes == {[raised |-> FALSE, value |-> SockOk],
                    [raised |-> FALSE, value |-> SockError("pi pid not found")],
                    [raised |-> TRUE]}

\* exceptions a connection can meet
Exceptions == {"ConnectionResetError", "BrokenPipeError", "RuntimeError"}

CaughtNever(e) == FALSE
\* handle_client: except Exception
Caught(e) == e \in Exceptions

NoReply == [ok |-> None]

SockInit ==
    /\ srv_pc = "accept"
    /\ srv_open = FALSE
    /\ srv_req = Line(<<>>, " ")
    /\ srv_resp = NoReply
    /\ srv_written = 0
    /\ srv_exc = None
    /\ srv_since = <<>>
    /\ srv_polls = 0
    /\ srv_scans = <<>>

\* run_server: server.accept() returns a connection
SrvAccept ==
    /\ srv_pc = "accept"
    /\ srv_pc' = "recv"
    /\ srv_open' = TRUE
    /\ srv_req' = Line(<<>>, " ")
    /\ srv_resp' = NoReply
    /\ srv_written' = 0
    /\ srv_exc' = None
    /\ srv_since' = <<>>
    /\ srv_polls' = 0
    /\ srv_scans' = <<>>
    /\ UNCHANGED nonSockVars

\* an exception reaches the except clause of handle_client
Raise(e) ==
    /\ srv_pc' = "close"
    /\ srv_exc' = IF Caught(e) THEN None ELSE e

\* handle_client: conn.recv(4096) and decode
SrvRecv ==
    /\ srv_pc = "recv"
    /\ \/ \E line \in SockLines :
            /\ srv_req' = line
            /\ srv_pc' = "parse"
            /\ UNCHANGED srv_exc
       \/ /\ Raise("ConnectionResetError")
          /\ UNCHANGED srv_req
    /\ UNCHANGED <<srv_open, srv_resp, srv_written, srv_since, srv_polls, srv_scans, nonSockVars>>

Answer(resp) ==
    /\ srv_resp' = resp
    /\ srv_pc' = "send"
    /\ UNCHANGED srv_exc

\* a scanner method was called: it returns a dict or raises
CallScanner ==
    \E out \in ScannerOutcomes :
        IF out.raised THEN Raise("RuntimeError") /\ UNCHANGED srv_resp
        ELSE Answer(out.value)

\* parse_request up to the watch loop
SrvParse ==
    /\ srv_pc = "parse"
    /\ LET words == srv_req.words
       IN IF words = <<>> \/ words = <<W("status")>>
          THEN /\ \E f \in SockFleets : Answer(StatusDict(f))
               /\ UNCHANGED <<srv_since>>
          ELSE IF words = <<W("ping")>>
          THEN Answer([ok |-> TRUE, pong |-> TRUE]) /\ UNCHANGED <<srv_since>>
          ELSE IF StartsWithWord(srv_req, "jump") \/ StartsWithWord(srv_req, "latest")
          THEN /\ IF Len(words) = 2 /\ IsIntText(words[2]) THEN CallScanner
                  ELSE Answer(SockError("invalid pid"))
               /\ UNCHANGED <<srv_since>>
          ELSE IF StartsWithWord(srv_req, "send")
          THEN /\ IF Len(words) < 3 THEN Answer(SockError("usage: send <pid> <message>"))
                  ELSE IF IsIntText(words[2]) THEN CallScanner
                  ELSE Answer(SockError("invalid pid"))
               /\ UNCHANGED <<srv_since>>
          ELSE IF StartsWithWatch(srv_req)
          THEN /\ srv_since' = IF Len(words) >= 3 THEN <<words[3]>> ELSE <<>>
               /\ srv_pc' = "watch"
               /\ UNCHANGED <<srv_resp, srv_exc>>
          ELSE Answer(UnknownRequest(srv_req)) /\ UNCHANGED <<srv_since>>
    /\ UNCHANGED <<srv_open, srv_req, srv_written, srv_polls, srv_scans, nonSockVars>>

\* parse_request: one pass of the watch loop; late is time.time() >= deadline
SrvWatchPoll ==
    /\ srv_pc = "watch"
    /\ \/ \E f \in SockFleets, late \in BOOLEAN :
            LET fingerprint == SockFingerprint(f)
            IN /\ late \/ srv_polls < MaxPolls
               /\ srv_scans' = Append(srv_scans, f)
               /\ IF fingerprint # srv_since \/ late
                  THEN /\ Answer(WatchEvent(IF fingerprint # srv_since THEN "status_changed" ELSE "timeout",
                                            fingerprint, f))
                       /\ UNCHANGED srv_polls
                  ELSE /\ srv_polls' = srv_polls + 1
                       /\ UNCHANGED <<srv_pc, srv_resp, srv_exc>>
       \/ /\ Raise("RuntimeError")
          /\ UNCHANGED <<srv_resp, srv_polls, srv_scans>>
    /\ UNCHANGED <<srv_open, srv_req, srv_written, srv_since, nonSockVars>>

\* handle_client: conn.sendall; the client may have closed already
SrvSend ==
    /\ srv_pc = "send"
    /\ \/ /\ srv_written' = srv_written + 1
          /\ srv_pc' = "close"
          /\ UNCHANGED srv_exc
       \/ /\ srv_pc' = "close"
          /\ UNCHANGED <<srv_written, srv_exc>>
       \/ /\ Raise("ConnectionResetError")
          /\ UNCHANGED srv_written
    /\ UNCHANGED <<srv_open, srv_req, srv_resp, srv_since, srv_polls, srv_scans, nonSockVars>>

\* handle_client: finally conn.close(); an exception that was not caught leaves
\* the loop of run_server
SrvClose ==
    /\ srv_pc = "close"
    /\ srv_open' = FALSE
    /\ srv_pc' = IF srv_exc = None THEN "accept" ELSE "stopped"
    /\ UNCHANGED <<srv_req, srv_resp, srv_written, srv_exc, srv_since, srv_polls, srv_scans, nonSockVars>>

----------------------------------------------------------------------------
(* HTTP gateway: _load_status on the scans of the daemon *)

\* the fields of an agent that the gateway sees, cpu standing for the ones it does
\* not hash
LAgent(p, act, t, at, cpu) == [pid |-> p, activity |-> act, text |-> t, at |-> at, cpu |-> cpu]
LoadPids == {1, 2, 3}
\* what the daemon may report about one pid
LoadAgents(p) ==
    {LAgent(p, "running", "", 0, 0), LAgent(p, "running", "", 0, 5),
     LAgent(p, "waiting_input", "hi", 5, 0)}
AllLoadAgents == UNION {LoadAgents(p) : p \in LoadPids}
\* scan() keeps one agent per pid
DistinctPids(agents) == \A i, j \in 1..Len(agents) : i # j => agents[i].pid # agents[j].pid
\* agent lists with distinct pids, in any order
LoadFleets ==
    {agents \in {<<>>}
                \cup {<<a>> : a \in AllLoadAgents}
                \cup {<<a, b>> : a \in AllLoadAgents, b \in AllLoadAgents}
                \cup {<<a, b, c>> : a \in AllLoadAgents, b \in AllLoadAgents, c \in AllLoadAgents} :
        DistinctPids(agents)}
LoadInit == loaded = <<>>

\* _load_status: _normalize_status_payload(request_socket("status")); two calls are
\* compared
LoadStatus ==
    /\ Len(loaded) < 2
    /\ \E agents \in LoadFleets :
         loaded' = Append(loaded, [agents |-> agents,
                                   status |-> Normalize(RequestSocket(StatusReply(agents)).value)])
    /\ UNCHANGED nonLoadVars

----------------------------------------------------------------------------
(* Scanner: the latest assistant message of an agent *)

\* longest gist, and the part of a longer text that is kept after "..."
GistMax == 420
GistTail == 417
\* longest text of the session file and of the terminal dump, and of the fallback text
FullMax == 12000
FallbackMax == 8000

\* a str | None value: the text as runs of one character
NoText == [some |-> FALSE, runs |-> <<>>]
Text(runs) == [some |-> TRUE, runs |-> runs]
\* bool(text)
Truthy(t) == t.some /\ t.runs # <<>>
\* characters: letters, space, newline, a control character, an inline tag, <br>
IsWhite(c) == c \in {" ", "\n"}

\* runs in normal form: no empty run, no two neighbours of the same character
RECURSIVE CanonFrom(_, _)
CanonFrom(runs, acc) ==
    IF runs = <<>> THEN acc
    ELSE IF Head(runs).n = 0 THEN CanonFrom(Tail(runs), acc)
    ELSE IF acc # <<>> /\ acc[Len(acc)].c = Head(runs).c
    THEN CanonFrom(Tail(runs), [acc EXCEPT ![Len(acc)].n = @ + Head(runs).n])
    ELSE CanonFrom(Tail(runs), Append(acc, Head(runs)))
Canon(runs) == CanonFrom(runs, <<>>)

\* text[:k]
RECURSIVE TakeFirst(_, _)
TakeFirst(runs, k) ==
    IF runs = <<>> \/ k <= 0 THEN <<>>
    ELSE IF Head(runs).n >= k THEN <<Run(Head(runs).c, k)>>
    ELSE <<Head(runs)>> \o TakeFirst(Tail(runs), k - Head(runs).n)
\* text[-k:]
RECURSIVE TakeLast(_, _)
TakeLast(runs, k) ==
    IF runs = <<>> \/ k <= 0 THEN <<>>
    ELSE LET last == runs[Len(runs)]
             front == SubSeq(runs, 1, Len(runs) - 1)
         IN IF last.n >= k THEN <<Run(last.c, k)>>
            ELSE Append(TakeLast(front, k - last.n), last)

\* text.strip()
RECURSIVE StripLeft(_)
StripLeft(runs) ==
    IF runs # <<>> /\ IsWhite(Head(runs).c) THEN StripLeft(Tail(runs)) ELSE runs
RECURSIVE StripRight(_)
StripRight(runs) ==
    IF runs # <<>> /\ IsWhite(runs[Len(runs)].c) THEN StripRight(SubSeq(runs, 1, Len(runs) - 1))
    ELSE runs
StripRuns(runs) == StripRight(StripLeft(runs))

\* [ln.rstrip() for ln in out.splitlines()] joined by "\n": spaces before a line
\* break or at the end go
RstripLines(runs) ==
    LET keep == {i \in 1..Len(runs) :
                    ~(runs[i].c = " " /\ (i = Len(runs) \/ runs[i + 1].c = "\n"))}
        KeptBefore(i) == Cardinality({j \in keep : j <= i})
    IN Canon([k \in 1..Cardinality(keep) |-> runs[CHOOSE i \in keep : KeptBefore(i) = k]])

\* re.sub(r"\n{3,}", "\n\n", out)
CollapseBlankLines(runs) ==
    [i \in 1..Len(runs) |-> IF runs[i].c = "\n" /\ runs[i].n >= 3 THEN Run("\n", 2) ELSE runs[i]]

\* the characters of category Cc other than newline and tab are dropped
NotControl(r) == r.c # "^G"
DropControl(runs) == Canon(SelectSeq(runs, NotControl))

\* _clean_message_text
CleanMessageText(t) ==
    IF ~Truthy(t) THEN Text(<<>>)
    ELSE Text(CollapseBlankLines(StripRuns(RstripLines(DropControl(t.runs)))))

\* the tags of _html_to_text: <br> and the closing block tags become a line break,
\* every other tag goes
Untag(runs) ==
    Canon([i \in 1..Len(runs) |-> IF runs[i].c = "<br>" THEN Run("\n", runs[i].n)
                                  ELSE IF runs[i].c = "<b>" THEN Run("<b>", 0)
                                  ELSE runs[i]])
\* _html_to_text
HtmlToText(html) ==
    IF ~Truthy(html) THEN NoText
    ELSE IF StripRuns(html.runs) = <<>> THEN NoText
    ELSE LET cleaned == CleanMessageText(Text(Untag(StripRuns(html.runs))))
         IN IF Truthy(cleaned) THEN cleaned ELSE NoText

\* " ".join(text.split())
CollapseWhite(runs) ==
    LET marked == Canon([i \in 1..Len(runs) |-> IF IsWhite(runs[i].c) THEN Run(" ", runs[i].n)
                                               ELSE runs[i]])
    IN [i \in 1..Len(marked) |-> IF marked[i].c = " " THEN Run(" ", 1) ELSE marked[i]]
JoinSplit(runs) == StripRuns(CollapseWhite(Canon(runs)))

MessageGistHead(t) ==
    IF ~Truthy(t) THEN NoText
    ELSE IF RunsLen(JoinSplit(t.runs)) <= GistMax THEN Text(JoinSplit(t.runs))
    ELSE Text(Canon(TakeFirst(JoinSplit(t.runs), GistTail) \o <<Run(".", 3)>>))
\* _message_gist
MessageGist(t) ==
    IF ~Truthy(t) THEN NoText
    ELSE IF RunsLen(JoinSplit(t.runs)) <= GistMax THEN Text(JoinSplit(t.runs))
    ELSE Text(Canon(<<Run(".", 3)>> \o TakeLast(JoinSplit(t.runs), GistTail)))

\* text[:max - 3] + "..." when len(text) > max
Shortened(runs, max) ==
    IF RunsLen(runs) > max THEN Canon(TakeFirst(runs, max - 3) \o <<Run(".", 3)>>) ELSE runs

\* a session file by what the scan of its lines ends with: no file, assistant chunks
\* (merged), only a thinking/status text (fallback), or nothing; text is the result
\* of _merge_message_chunks / _strip_noise_lines, which end with strip()
SessionFile(kind, runs) == [kind |-> kind, text |-> runs]
\* _latest_assistant_message: the text it returns
LatestAssistantMessage(file) ==
    IF file.kind = "merged" THEN Text(Shortened(file.text, FullMax))
    ELSE IF file.kind = "fallback" /\ file.text # <<>> THEN Text(Shortened(file.text, FallbackMax))
    ELSE NoText

\* the terminal of the agent: the lines _preview_from_terminal_dump selects, joined
\* and stripped (none: no multiplexer dump), and whether the agent has a tty
Terminal(has_dump, runs, has_tty) == [has_dump |-> has_dump, selected |-> runs, has_tty |-> has_tty]
WaitingOnTty == <<Run("w", 7), Run(" ", 1), Run("o", 2), Run(" ", 1), Run("t", 7)>>
\* _latest_runtime_preview with _preview_from_terminal_dump
LatestRuntimePreview(term) ==
    LET preview == IF term.has_dump /\ term.selected # <<>>
                THEN Text(Shortened(term.selected, FullMax)) ELSE NoText
    IN IF ~Truthy(preview) /\ term.has_tty THEN Text(WaitingOnTty) ELSE preview

\* str(x or "")
StrOr(t) == IF Truthy(t) THEN t ELSE Text(<<>>)
\* x or None
OrNone(t) == IF Truthy(t) THEN t ELSE NoText

\* lastAssistantText as telemetry may hold it
TelemetryTexts ==
    {NoText,
     Text(<<>>),
     Text(<<Run(" ", 2), Run("\n", 1)>>),
     Text(<<Run(" ", 1), Run("a", 1), Run(" ", 2), Run("b", 1), Run("\n", 3), Run("^G", 1),
            Run("c", 1), Run(" ", 1), Run("\n", 1)>>),
     Text(<<Run("a", GistMax)>>),
     Text(<<Run("a", 300), Run("b", GistMax - 299)>>),
     Text(<<Run("a", 200), Run(" ", 50), Run("b", 200)>>),
     Text(<<Run("a", 6000), Run("\n", 1), Run("b", FullMax - 6000)>>)}
\* lastAssistantHtml
TelemetryHtmls ==
    {NoText,
     Text(<<Run("<b>", 2)>>),
     Text(<<Run("<b>", 1), Run("a", 3), Run("<br>", 1), Run("b", 500), Run("<b>", 1)>>)}
SessionFiles ==
    {SessionFile("none", <<>>),
     SessionFile("nothing", <<>>),
     SessionFile("merged", <<>>),
     SessionFile("merged", <<Run("a", 1), Run("\n", 2), Run("b", 1)>>),
     SessionFile("merged", <<Run("a", 6000), Run(" ", 1), Run("b", FullMax)>>),
     SessionFile("fallback", <<Run("a", FallbackMax + 1)>>)}
Terminals ==
    {Terminal(FALSE, <<>>, FALSE),
     Terminal(FALSE, <<>>, TRUE),
     Terminal(TRUE, <<Run("a", FullMax), Run("\n", 1), Run("b", 5)>>, TRUE)}

MsgSources(t, h, f, term) == [text |-> t, html |-> h, file |-> f, terminal |-> term]
NoSources == [text |-> NoText]
NoMessageResult == [kind |-> None]
MsgResult(kind, full, gist) ==
    [kind |-> kind, latest_message_full |-> full, latest_message |-> gist]

MsgInit ==
    /\ msg_sources = NoSources
    /\ msg_result = NoMessageResult

\* _agents_from_telemetry, lines 161-179: the message fields of one agent
TelemetryAgentMessage ==
    /\ msg_result = NoMessageResult
    /\ \E t \in TelemetryTexts, h \in TelemetryHtmls, f \in SessionFiles :
         LET telemetry_last_text == CleanMessageText(StrOr(t))
             telemetry_last_html == Text(StripRuns(StrOr(h).runs))
             telemetry_html_text == HtmlToText(telemetry_last_html)
             from_telemetry == IF Truthy(telemetry_last_text) THEN telemetry_last_text
                               ELSE OrNone(telemetry_html_text)
             gist == MessageGist(from_telemetry)
             parsed_text == LatestAssistantMessage(f)
             use_file == f.kind # "none" /\ ~Truthy(from_telemetry)
         IN /\ msg_sources' = MsgSources(t, h, f, Terminal(FALSE, <<>>, FALSE))
            /\ msg_result' =
                 MsgResult("agent",
                           IF use_file THEN parsed_text ELSE from_telemetry,
                           IF use_file /\ ~Truthy(gist) THEN MessageGist(parsed_text) ELSE gist)
    /\ UNCHANGED nonMsgVars

\* latest_message(pid) for a pid that is a pi process
LatestMessage ==
    /\ msg_result = NoMessageResult
    /\ \E t \in TelemetryTexts, h \in TelemetryHtmls, f \in SessionFiles, term \in Terminals :
         LET cleaned == CleanMessageText(StrOr(t))
             stripped == Text(StripRuns(StrOr(h).runs))
             from_telemetry == IF Truthy(cleaned) THEN cleaned
                               ELSE IF Truthy(stripped) THEN HtmlToText(stripped)
                               ELSE NoText
             from_file == IF ~Truthy(from_telemetry) /\ f.kind # "none"
                          THEN LatestAssistantMessage(f) ELSE from_telemetry
             latest_full == IF ~Truthy(from_file) THEN LatestRuntimePreview(term) ELSE from_file
         IN /\ msg_sources' = MsgSources(t, h, f, term)
            /\ msg_result' = MsgResult("latest", latest_full, MessageGist(latest_full))
    /\ UNCHANGED nonMsgVars

----------------------------------------------------------------------------
(* _send_via_bridge: the enqueue of an envelope, step by step, beside the consumer *)

\* inbox_dir / f".{msg_id}.tmp" and inbox_dir / f"{msg_id}.json"
TmpFileInPlace(id) == [kind |-> "json", id |-> id]
TmpFile(id) == [kind |-> "tmp", id |-> id]
InboxFile(id) == [kind |-> "json", id |-> id]
\* the consumer's glob *.json
MatchesJson(name) == name.kind = "json"
File(name, content) == [name |-> name, content |-> content]
\* the file of that name, if any
Named(files, name) == {f \in files : f.name = name}
Without(files, name) == files \ Named(files, name)
\* the envelope of this pass (a fresh uuid each pass)
EnqId == enq_attempt + 1

EnqInit ==
    /\ enq_pc = "idle"
    /\ enq_attempt = 0
    /\ enq_files = {}
    /\ enq_seen = {}

\* the loop is entered (retry_attempts at its default)
EnqStart ==
    /\ enq_pc = "idle"
    /\ enq_pc' = "open"
    /\ UNCHANGED <<enq_attempt, enq_files, enq_seen, nonEnqVars>>

\* tmp_file.write_text: open(..., "w") creates the file empty, or raises
EnqOpen ==
    /\ enq_pc = "open"
    /\ \/ /\ enq_files' = Without(enq_files, TmpFile(EnqId)) \cup {File(TmpFile(EnqId), "empty")}
          /\ enq_pc' = "write"
       \/ /\ enq_pc' = "except"
          /\ UNCHANGED enq_files
    /\ UNCHANGED <<enq_attempt, enq_seen, nonEnqVars>>

\* tmp_file.write_text: the text reaches the file in part, then whole, or write raises
EnqWrite ==
    /\ enq_pc = "write"
    /\ \/ /\ File(TmpFile(EnqId), "empty") \in enq_files
          /\ enq_files' = Without(enq_files, TmpFile(EnqId)) \cup {File(TmpFile(EnqId), "partial")}
          /\ UNCHANGED enq_pc
       \/ /\ enq_files' = Without(enq_files, TmpFile(EnqId)) \cup {File(TmpFile(EnqId), "complete")}
          /\ enq_pc' = "replace"
       \/ /\ enq_pc' = "except"
          /\ UNCHANGED enq_files
    /\ UNCHANGED <<enq_attempt, enq_seen, nonEnqVars>>

\* os.replace(tmp_file, inbox_file): the name changes in one step, or nothing changes
EnqReplace ==
    /\ enq_pc = "replace"
    /\ \/ /\ enq_files' = (Without(Without(enq_files, TmpFile(EnqId)), InboxFile(EnqId)))
                          \cup {File(InboxFile(EnqId), f.content) : f \in Named(enq_files, TmpFile(EnqId))}
          /\ enq_pc' = "ack"
       \/ /\ enq_pc' = "except"
          /\ UNCHANGED enq_files
    /\ UNCHANGED <<enq_attempt, enq_seen, nonEnqVars>>

\* lines 396-403: the temp file is unlinked if it exists (a failure is passed over)
\* and "bridge enqueue failed" is returned
EnqExcept ==
    /\ enq_pc = "except"
    /\ \/ enq_files' = Without(enq_files, TmpFile(EnqId))
       \/ Named(enq_files, TmpFile(EnqId)) # {} /\ UNCHANGED enq_files
    /\ enq_pc' = "failed"
    /\ UNCHANGED <<enq_attempt, enq_seen, nonEnqVars>>

\* the consumer writes the ack of an envelope it has read
AckWritten == \E f \in enq_seen : f.name = InboxFile(EnqId)

\* lines 405-456: the ack asks for another pass, or the call returns: delivered
\* ("returned"), a failure ack that is not retried ("refused"), or no ack file
\* by the deadline ("timed_out", lines 416-425: last_error is set, break, return)
EnqAck ==
    /\ enq_pc = "ack"
    /\ \/ /\ enq_attempt < DefaultRetries - 1
          /\ enq_attempt' = enq_attempt + 1
          /\ enq_pc' = "open"
       \/ /\ enq_pc' = "returned"
          /\ UNCHANGED enq_attempt
       \/ /\ AckWritten
          /\ enq_pc' = "refused"
          /\ UNCHANGED enq_attempt
       \/ /\ enq_pc' = "timed_out"
          /\ UNCHANGED enq_attempt
    /\ UNCHANGED <<enq_files, enq_seen, nonEnqVars>>

\* the bridge consumer lists inbox/<pid>/*.json and reads each file
ConsumerRead ==
    /\ enq_pc # "idle"
    /\ enq_seen' = enq_seen \cup {f \in enq_files : MatchesJson(f.name)}
    /\ enq_seen' # enq_seen
    /\ UNCHANGED <<enq_pc, enq_attempt, enq_files, nonEnqVars>>

\* the bridge consumer removes an envelope it has read
ConsumerTake ==
    /\ \E f \in enq_files \cap enq_seen :
         enq_files' = enq_files \ {f}
    /\ UNCHANGED <<enq_pc, enq_attempt, enq_seen, nonEnqVars>>

----------------------------------------------------------------------------
(* _send_via_bridge: the settings read from the environment *)

DefaultAckTimeoutMs == 1200
DefaultBackoffMs == 450
MinBackoffMs == 100
MaxBackoffMs == 3000

\* x or default
OrDefault(x, default) == IF x = 0 THEN default ELSE x
\* line 356
AckTimeoutMs(env) == OrDefault(ToInt(env, DefaultAckTimeoutMs), DefaultAckTimeoutMs)
\* lines 358 and 360
RetryBackoffMs(env) ==
    Max(MinBackoffMs, Min(MaxBackoffMs, OrDefault(ToInt(env, DefaultBackoffMs), DefaultBackoffMs)))

AckTimeoutEnvValues == {EnvUnset, EnvInt(0), EnvInt(500)}
SendRetriesEnvValues == {EnvUnset, EnvText} \cup {EnvInt(n) : n \in -2..(MaxRetries + 2)}
BackoffEnvValues ==
    {EnvUnset, EnvText}
    \cup {EnvInt(n) : n \in {-1, 0, 1, MinBackoffMs - 1, MinBackoffMs, MinBackoffMs + 1,
                             DefaultBackoffMs, MaxBackoffMs, MaxBackoffMs + 1}}

NoSettings == [read |-> FALSE]

EnvInit ==
    /\ bridge_env = NoSettings
    /\ bridge_settings = NoSettings

\* lines 356-360
BridgeSettings ==
    /\ bridge_settings = NoSettings
    /\ \E t \in AckTimeoutEnvValues, r \in SendRetriesEnvValues, b \in BackoffEnvValues :
         /\ bridge_env' = [read |-> TRUE, timeout |-> t, retries |-> r, backoff |-> b]
         /\ bridge_settings' = [read |-> TRUE, timeout_ms |-> AckTimeoutMs(t),
                                retry_attempts |-> RetryAttempts(r),
                                retry_backoff_ms |-> RetryBackoffMs(b)]
    /\ UNCHANGED nonEnvVars

----------------------------------------------------------------------------
(* HTTP gateway: handler threads of the two listeners at the send limiter *)

\* time.time() of the threads stays inside one window of RateWindowSeconds
MaxThrTime == 2

\* ThreadingHTTPServer: one handler thread per connection
Threads == {1, 2, 3}

\* main: the HTTP server, and the HTTPS server started when https_enabled
Listeners == {"http", "https"}

\* a server object before main has built it
NotServing == [up |-> FALSE]

\* apply_shared_server_state: server.send_limiter = RateLimiter(limit), an object
\* of the server it is applied to; recent is the deque of the one client ip
Serving(limit) == [up |-> TRUE, limit |-> limit, recent |-> <<>>]

ThreadIdle == [pc |-> "idle"]

ThrInit ==
    /\ listeners = [l \in Listeners |-> NotServing]
    /\ thr = [t \in Threads |-> ThreadIdle]
    /\ thr_clock = 0
    /\ thr_admitted = [l \in Listeners |-> 0]

\* main: httpd, and httpsd unless https is disabled or its setup failed
Serve ==
    /\ ~listeners["http"].up
    /\ \E limit \in 1..MaxLimit, https \in BOOLEAN :
         listeners' = [l \in Listeners |->
                          IF l = "http" \/ https THEN Serving(limit) ELSE NotServing]
    /\ UNCHANGED <<thr, thr_clock, thr_admitted, nonThrVars>>

\* do_POST of an authorized POST /send, up to limiter = self.server.send_limiter
ThrAccept(t) ==
    /\ thr[t].pc = "idle"
    /\ \E l \in Listeners :
         /\ listeners[l].up
         /\ thr' = [thr EXCEPT ![t] = [pc |-> "allow", listener |-> l]]
    /\ UNCHANGED <<listeners, thr_clock, thr_admitted, nonThrVars>>

\* RateLimiter.allow: now = time.time(), the popleft loop and the test len(q) >= limit
ThrCheck(t) ==
    /\ thr[t].pc = "allow"
    /\ LET l == thr[t].listener
           q == Prune(listeners[l].recent, thr_clock)
       IN /\ listeners' = [listeners EXCEPT ![l].recent = q]
          /\ thr' = [thr EXCEPT ![t] =
                        IF Len(q) >= listeners[l].limit
                        THEN [pc |-> "refused", listener |-> l]
                        ELSE [pc |-> "record", listener |-> l, now |-> thr_clock]]
    /\ UNCHANGED <<thr_clock, thr_admitted, nonThrVars>>

\* RateLimiter.allow: q.append(now); return True
ThrRecord(t) ==
    /\ thr[t].pc = "record"
    /\ LET l == thr[t].listener
       IN /\ listeners' = [listeners EXCEPT ![l].recent = Append(@, thr[t].now)]
          /\ thr_admitted' = [thr_admitted EXCEPT ![l] = @ + 1]
          /\ thr' = [thr EXCEPT ![t] = [pc |-> "admitted", listener |-> l]]
    /\ UNCHANGED <<thr_clock, nonThrVars>>

\* time passes while the threads run
ThrTick ==
    /\ listeners["http"].up
    /\ thr_clock < MaxThrTime
    /\ thr_clock' = thr_clock + 1
    /\ UNCHANGED <<listeners, thr, thr_admitted, nonThrVars>>

----------------------------------------------------------------------------
(* Socket server: the clients of the one accept loop *)

Peers == {"first", "second", "third"}

\* what a client writes after connecting: a request answered at once, a watch
\* that polls until its deadline, a send that retries its bridge delivery
PeerRequests == {"status", "watch", "send"}

PeerAway == [at |-> "away"]
\* connected, nothing written, connection kept open
PeerSilent == [at |-> "silent"]
PeerWrote(req) == [at |-> "wrote", req |-> req]
\* the client closed its end without writing
PeerHungUp == [at |-> "hungup"]
\* the daemon has sent the response, or closed the connection without one
PeerDone(answered) == [at |-> "done", answered |-> answered]

AccInit ==
    /\ peer = [c \in Peers |-> PeerAway]
    /\ acc_pending = <<>>
    /\ acc_pc = "accept"
    /\ acc_conn = None
    /\ acc_polls = 0

\* request: s.connect(SOCKET_PATH); the connection waits in the backlog of listen(32)
PeerConnect(c) ==
    /\ peer[c] = PeerAway
    /\ peer' = [peer EXCEPT ![c] = PeerSilent]
    /\ acc_pending' = Append(acc_pending, c)
    /\ UNCHANGED <<acc_pc, acc_conn, acc_polls, nonAccVars>>

\* request: s.sendall(req + "\n")
PeerWrite(c) ==
    /\ peer[c] = PeerSilent
    /\ \E req \in PeerRequests : peer' = [peer EXCEPT ![c] = PeerWrote(req)]
    /\ UNCHANGED <<acc_pending, acc_pc, acc_conn, acc_polls, nonAccVars>>

\* a client gives up and closes without having written
PeerHangUp(c) ==
    /\ peer[c] = PeerSilent
    /\ peer' = [peer EXCEPT ![c] = PeerHungUp]
    /\ UNCHANGED <<acc_pending, acc_pc, acc_conn, acc_polls, nonAccVars>>

\* run_server: conn, _ = server.accept(); handle_client(conn, scanner)
LoopAccept ==
    /\ acc_pc = "accept"
    /\ acc_pending # <<>>
    /\ acc_conn' = Head(acc_pending)
    /\ acc_pending' = Tail(acc_pending)
    /\ acc_pc' = "recv"
    /\ acc_polls' = 0
    /\ UNCHANGED <<peer, nonAccVars>>

RecvReturnsAlways(p) == TRUE

\* conn.recv(4096) on a blocking socket returns once the client has written
\* (the request) or has closed (b"", the empty request)
RecvReturns(p) == p.at \in {"wrote", "hungup"}

\* handle_client: data = conn.recv(4096)
LoopRecv ==
    /\ acc_pc = "recv"
    /\ RecvReturns(peer[acc_conn])
    /\ acc_pc' = IF peer[acc_conn].at = "wrote" /\ peer[acc_conn].req # "status"
                 THEN "loop" ELSE "send"
    /\ UNCHANGED <<peer, acc_pending, acc_conn, acc_polls, nonAccVars>>

\* parse_request: one pass of the watch loop, or one attempt of the bridge send;
\* the deadline and the retry count end the loop
LoopWork ==
    /\ acc_pc = "loop"
    /\ \/ /\ acc_polls < MaxPolls
          /\ acc_polls' = acc_polls + 1
          /\ UNCHANGED acc_pc
       \/ /\ acc_pc' = "send"
          /\ UNCHANGED acc_polls
    /\ UNCHANGED <<peer, acc_pending, acc_conn, nonAccVars>>

\* handle_client: conn.sendall(response), BrokenPipeError passed over; finally conn.close()
LoopSend ==
    /\ acc_pc = "send"
    /\ peer' = [peer EXCEPT ![acc_conn] = PeerDone(peer[acc_conn].at = "wrote")]
    /\ acc_conn' = None
    /\ acc_pc' = "accept"
    /\ UNCHANGED <<acc_pending, acc_polls, nonAccVars>>

\* the daemon runs whenever a step of its loop can be taken
LoopStep == LoopAccept \/ LoopRecv \/ LoopWork \/ LoopSend

----------------------------------------------------------------------------
(* send_message: the characters each transport writes into the agent's input *)

NoRoute == [mux |-> None]

\* a transport attempt: wrote is the number of characters of the text that
\* reached the agent's input, ok whether the transport reported success
Attempt(t, wrote, ok) == [t |-> t, wrote |-> wrote, ok |-> ok]

\* what _send_via_bridge returns, as send_message tells the cases apart
BridgeOutcomes ==
    {NoBridge,
     [ok |-> TRUE, bridge |-> TRUE],
     [ok |-> FALSE, bridge |-> TRUE, error |-> "bridge ack timeout", bridge_error |-> None],
     [ok |-> FALSE, bridge |-> TRUE, error |-> "bridge ack: rate_limited", bridge_error |-> "rate_limited"]}

InjInit ==
    /\ inj_pc = "idle"
    /\ inj_route = NoRoute
    /\ inj_log = <<>>

\* lines 721-743: the text is not empty, the pi row exists; mux, session and tty are set
InjStart ==
    /\ inj_pc = "idle"
    /\ \E m \in {None} \cup KnownMuxes, session \in {None, "s1"}, t \in {None, "ttys001"},
          app \in {None, "iTerm2"}, n \in 1..MaxMsgLen :
         inj_route' = [mux |-> m, mux_session |-> session, tty |-> t, terminal_app |-> app, len |-> n]
    /\ inj_log' = <<>>
    /\ inj_pc' = "mux"
    /\ UNCHANGED nonInjVars

InjAttempt(a, next) ==
    /\ inj_log' = Append(inj_log, a)
    /\ inj_pc' = next
    /\ UNCHANGED <<inj_route, nonInjVars>>

\* lines 746-763: write-chars; when it exits 0 the carriage return, then return.
\* Either subprocess.run may raise (TimeoutExpired, OSError): except Exception: pass
InjZellij ==
    /\ inj_pc = "mux"
    /\ MuxStage(inj_route.mux, inj_route.mux_session) = "zellij"
    /\ \/ InjAttempt(Attempt("zellij", 0, FALSE), "bridge")
       \/ InjAttempt(Attempt("zellij", inj_route.len, TRUE), "done")
       \/ InjAttempt(Attempt("zellij", inj_route.len, FALSE), "bridge")

\* lines 765-784 and _send_tmux_message: a send-keys command exits 0, or none does
InjTmux ==
    /\ inj_pc = "mux"
    /\ MuxStage(inj_route.mux, inj_route.mux_session) = "tmux"
    /\ \/ InjAttempt(Attempt("tmux", inj_route.len, TRUE), "done")
       \/ InjAttempt(Attempt("tmux", 0, FALSE), "bridge")

\* no mux injection applies
InjNoMux ==
    /\ inj_pc = "mux"
    /\ MuxStage(inj_route.mux, inj_route.mux_session) = None
    /\ inj_pc' = "bridge"
    /\ UNCHANGED <<inj_route, inj_log, nonInjVars>>

\* lines 786-811: the bridge result, the fail-fast return and the mux gate
InjBridge ==
    /\ inj_pc = "bridge"
    /\ \E br \in BridgeOutcomes :
         IF br # NoBridge /\ br.ok
         THEN InjAttempt(Attempt("pi-bridge", inj_route.len, TRUE), "done")
         ELSE LET next == IF br # NoBridge /\ ~BridgeRateLimited(br) THEN "done"
                          ELSE IF MuxGate(inj_route.mux) THEN "done"
                          ELSE IF TtyUsable(inj_route.tty) THEN "script" ELSE "ui"
              IN IF br = NoBridge
                 THEN inj_pc' = next /\ UNCHANGED <<inj_route, inj_log, nonInjVars>>
                 ELSE InjAttempt(Attempt("pi-bridge", 0, FALSE), next)

\* line 817 and _send_via_terminal_script
InjScript ==
    /\ inj_pc = "script"
    /\ \/ InjAttempt(Attempt("terminal-script", inj_route.len, TRUE), "done")
       \/ InjAttempt(Attempt("terminal-script", 0, FALSE), "tty")

\* line 827 and _inject_tty_input: one TIOCSTI ioctl per character of text + "\n";
\* the first ioctl that raises (or os.open) ends the loop and the function returns
\* False, whatever was pushed before
InjTty ==
    /\ inj_pc = "tty"
    /\ \E pushed \in 0..(inj_route.len + 1) :
         IF pushed = inj_route.len + 1
         THEN InjAttempt(Attempt("tty-input", inj_route.len, TRUE), "done")
         ELSE InjAttempt(Attempt("tty-input", Min(pushed, inj_route.len), FALSE), "ui")

\* lines 831-848 and _send_via_ui_typing
InjUi ==
    /\ inj_pc = "ui"
    /\ IF inj_route.terminal_app = None
       THEN inj_pc' = "done" /\ UNCHANGED <<inj_route, inj_log, nonInjVars>>
       ELSE \/ InjAttempt(Attempt("ui-keystroke", inj_route.len, TRUE), "done")
            \/ InjAttempt(Attempt("ui-keystroke", 0, FALSE), "done")

\* the call has returned; the daemon takes the next send
InjReturn ==
    /\ inj_pc = "done"
    /\ inj_pc' = "idle"
    /\ UNCHANGED <<inj_route, inj_log, nonInjVars>>

----------------------------------------------------------------------------
(* _infer_mux and _detect_terminal_target_for_pid: the ancestor walks, pass by pass *)

\* tables of the processes 1..n: process 1 is the pi process, the parent of p is
\* p + 1, the parent of n is `top`: 0 (no parent), n (a self-loop), 1 (a cycle)
\* or a pid of no row; `near` and `far` are the processes that carry a marker
WalkLengths == {1, 2, 3, MaxHops + 1, MaxHops + 2}
WalkMarks ==
    {OtherShape("zellij", "??", <<"zellij", "--server", "/tmp/zellij/s1">>),
     OtherShape("tmux", "ttys001", <<"tmux", "attach", "-t", "s1:0">>),
     OtherShape("screen", "??", <<"screen", "-S", "s1">>),
     OtherShape("iTerm2", "??", <<"iTerm2">>)}
FarMarks == {OtherShape("tmux", "??", <<"tmux">>), OtherShape("ghostty", "??", <<"ghostty">>)}

WalkTable(n, top, near, mark, far, far_mark) ==
    [p \in 1..n |->
        Row(p, IF p = n THEN top ELSE p + 1,
            IF p = 1 THEN PiShape("S+", "ttys001", 0)
            ELSE IF p = near THEN mark
            ELSE IF p = far THEN far_mark
            ELSE ShellShape)]

WalkTables ==
    {WalkTable(n, top, near, mark, far, far_mark) :
        n \in WalkLengths, top \in {0, 1, MaxHops + 2, MaxHops + 7},
        near \in {0, 2, 3, MaxHops + 1}, mark \in WalkMarks,
        far \in {0, MaxHops + 1, MaxHops + 2}, far_mark \in FarMarks}

NoMarker == <<>>

\* lines 1472-1479: the mux the args of an ancestor name, with its session
MuxMarker(anc) ==
    IF ArgsContain(anc.args, "zellij") THEN <<"zellij", ExtractZellijSession(anc.args)>>
    ELSE IF ArgsContain(anc.args, "tmux") THEN <<"tmux", ExtractTmuxSession(anc.args)>>
    ELSE IF ArgsContain(anc.args, "screen") THEN <<"screen", None>>
    ELSE NoMarker

\* lines 1549-1557: the terminal app comm or args of a row name
TerminalMarker(row) ==
    LET words == TokenWords(row.comm) \cup UNION {TokenWords(row.args[i]) : i \in 1..Len(row.args)}
    IN IF "ghostty" \in words THEN "Ghostty"
       ELSE IF "iterm" \in words THEN "iTerm2"
       ELSE IF "terminal" \in words THEN "Terminal"
       ELSE None

MuxContinuesUnbounded(cur, seen, hops) == cur # 0

\* while cur and cur not in seen and hops < 20
MuxContinues(cur, seen, hops) == cur # 0 /\ cur \notin seen /\ hops < MaxHops

TerminalContinuesUnseen(cur, seen) == cur # 0

\* while cur and cur not in seen
TerminalContinues(cur, seen) == cur # 0 /\ cur \notin seen

\* no walk has returned
NoWalk == [walk |-> None]

WalkInit ==
    /\ walk_pc = "idle"
    /\ walk_rows = <<>>
    /\ walk_cur = 0
    /\ walk_seen = {}
    /\ walk_hops = 0
    /\ walk_examined = <<>>
    /\ walk_result = NoWalk

\* _infer_mux(row, by_pid) is entered for the pi row: cur = row.get("ppid")
MuxWalkStart ==
    /\ walk_pc = "idle"
    /\ \E rows \in WalkTables :
         /\ walk_rows' = rows
         /\ walk_cur' = rows[1].ppid
    /\ walk_pc' = "mux"
    /\ walk_seen' = {}
    /\ walk_hops' = 0
    /\ walk_examined' = <<>>
    /\ walk_result' = NoWalk
    /\ UNCHANGED nonWalkVars

\* _detect_terminal_target_for_pid(pid, by_pid) is entered: cur = pid
TerminalWalkStart ==
    /\ walk_pc = "idle"
    /\ \E rows \in WalkTables :
         /\ walk_rows' = rows
         /\ walk_cur' = rows[1].pid
    /\ walk_pc' = "terminal"
    /\ walk_seen' = {}
    /\ walk_hops' = 0
    /\ walk_examined' = <<>>
    /\ walk_result' = NoWalk
    /\ UNCHANGED nonWalkVars

WalkReturns(r) ==
    /\ walk_pc' = "done"
    /\ walk_result' = [walk |-> walk_pc, value |-> r]
    /\ UNCHANGED walk_cur

\* _infer_mux: the loop test and one pass of the loop
MuxWalkStep ==
    /\ walk_pc = "mux"
    /\ IF ~MuxContinues(walk_cur, walk_seen, walk_hops)
       THEN /\ WalkReturns(<<None, None>>)
            /\ UNCHANGED <<walk_seen, walk_hops, walk_examined>>
       ELSE /\ walk_seen' = walk_seen \cup {walk_cur}
            /\ walk_hops' = walk_hops + 1
            /\ walk_examined' = Append(walk_examined, walk_cur)
            /\ IF ~HasPid(walk_rows, walk_cur) THEN WalkReturns(<<None, None>>)
               ELSE LET anc == ByPid(walk_rows, walk_cur)
                    IN IF MuxMarker(anc) # NoMarker THEN WalkReturns(MuxMarker(anc))
                       ELSE /\ walk_cur' = anc.ppid
                            /\ UNCHANGED <<walk_pc, walk_result>>
    /\ UNCHANGED <<walk_rows, nonWalkVars>>

\* _detect_terminal_target_for_pid: the loop test and one pass of the loop
TerminalWalkStep ==
    /\ walk_pc = "terminal"
    /\ IF ~TerminalContinues(walk_cur, walk_seen)
       THEN /\ WalkReturns(None)
            /\ UNCHANGED <<walk_seen, walk_examined>>
       ELSE /\ walk_seen' = walk_seen \cup {walk_cur}
            /\ walk_examined' = Append(walk_examined, walk_cur)
            /\ IF ~HasPid(walk_rows, walk_cur) THEN WalkReturns(None)
               ELSE LET row == ByPid(walk_rows, walk_cur)
                    IN IF TerminalMarker(row) # None THEN WalkReturns(TerminalMarker(row))
                       ELSE /\ walk_cur' = row.ppid
                            /\ UNCHANGED <<walk_pc, walk_result>>
    /\ UNCHANGED <<walk_rows, walk_hops, nonWalkVars>>

\* the caller goes on with the result
WalkReturn ==
    /\ walk_pc = "done"
    /\ walk_pc' = "idle"
    /\ UNCHANGED <<walk_rows, walk_cur, walk_seen, walk_hops, walk_examined, walk_result, nonWalkVars>>

----------------------------------------------------------------------------
(* _latest_assistant_message: the lines of a session file, newest first *)

\* most lines of a session file
MaxLines == 3

\* a line as the loop tells lines apart: "junk" does not parse as JSON, "user" is
\* a user message, "other" any other object that is not an assistant message;
\* an assistant message has no text left after cleaning ("empty"), looks like a
\* tool trace, like a thinking/status line, or is part of a reply.
\* ts is _extract_timestamp_ms(obj): 0 for None, or the time of the line (its position)
NonAssistantLines == {[what |-> "junk"], [what |-> "user"], [what |-> "other"]}
AssistantLine(looks, ts) == [what |-> "assistant", looks |-> looks, ts |-> ts]
LinesAt(i) ==
    NonAssistantLines \cup {AssistantLine("empty", 0)}
    \cup {AssistantLine(looks, ts) : looks \in {"tool_trace", "thinking", "reply"}, ts \in {0, i}}

SessionLines ==
    UNION {{lines \in [1..n -> UNION {LinesAt(i) : i \in 1..n}] :
                \A i \in 1..n : lines[i] \in LinesAt(i)} : n \in 0..MaxLines}

\* chunks: the lines appended, newest first; fallback: the line kept as fallback (0: none)
ParseStart == [chunks |-> <<>>, latest_ts |-> 0, started |-> FALSE, fallback |-> 0, fallback_ts |-> 0]

\* ts of the first line that reaches line 905 with a timestamp
\* if latest_ts is None and ts is not None: latest_ts = ts
LatestTs(st, ts) == IF st.latest_ts = 0 /\ ts # 0 THEN ts ELSE st.latest_ts

RECURSIVE ParseFrom(_, _, _)
\* lines 879-921: for line in reversed(chunk.splitlines()), from line i down
ParseFrom(lines, i, st) ==
    IF i = 0 THEN st
    ELSE LET line == lines[i]
         IN IF line.what = "junk"
            THEN IF st.started THEN st ELSE ParseFrom(lines, i - 1, st)
            ELSE IF line.what = "user"
            THEN IF st.started THEN st ELSE ParseFrom(lines, i - 1, st)
            ELSE IF line.what = "other" THEN ParseFrom(lines, i - 1, st)
            ELSE IF line.looks = "empty" THEN ParseFrom(lines, i - 1, st)
            ELSE LET timed == [st EXCEPT !.latest_ts = LatestTs(st, line.ts)]
                 IN IF line.looks = "tool_trace" THEN ParseFrom(lines, i - 1, timed)
                    ELSE IF line.looks = "thinking"
                    THEN ParseFrom(lines, i - 1,
                                   IF timed.fallback = 0
                                   THEN [timed EXCEPT !.fallback = i, !.fallback_ts = line.ts]
                                   ELSE timed)
                    ELSE ParseFrom(lines, i - 1,
                                   [timed EXCEPT !.started = TRUE, !.chunks = Append(@, i)])

RECURSIVE Reversed(_)
Reversed(s) == IF s = <<>> THEN <<>> ELSE Append(Reversed(Tail(s)), Head(s))

NoParse == [parsed |-> FALSE]
\* the returned pair: from are the lines the text was built of, oldest first
ParsedMessage(from, ts) == [parsed |-> TRUE, from |-> from, ts |-> ts]

\* lines 923-946: the merged chunks with latest_ts, else the fallback line with
\* its own timestamp, else (None, None)
LatestOfSessionFile(lines) ==
    LET st == ParseFrom(lines, Len(lines), ParseStart)
    IN IF st.chunks # <<>> THEN ParsedMessage(Reversed(st.chunks), st.latest_ts)
       ELSE IF st.fallback # 0 THEN ParsedMessage(<<st.fallback>>, st.fallback_ts)
       ELSE ParsedMessage(<<>>, 0)

ParseInit ==
    /\ parse_lines = <<>>
    /\ parse_result = NoParse

\* _latest_assistant_message(session_file) on a file that was not parsed before
ParseSessionFile ==
    /\ parse_result = NoParse
    /\ \E lines \in SessionLines :
         /\ parse_lines' = lines
         /\ parse_result' = LatestOfSessionFile(lines)
    /\ UNCHANGED nonParseVars

\* the file is rewritten; the next call parses it again
ParseAgain ==
    /\ parse_result # NoParse
    /\ parse_lines' = <<>>
    /\ parse_result' = NoParse
    /\ UNCHANGED nonParseVars

----------------------------------------------------------------------------
(* HTTP gateway: a client that long-polls again and again while the fleet changes *)

\* how often the fleet changes before it stays as it is
MaxChanges == 2
\* what the daemon may report, sorted by pid as scan() returns it
ConvFleets ==
    {<<>>,
     <<HAgent(1, "running", "", 0)>>,
     <<HAgent(1, "waiting_input", "", 0)>>,
     <<HAgent(1, "running", "hi", 5)>>,
     <<HAgent(1, "running", "", 0), HAgent(2, "waiting_input", "", 0)>>}

\* the client: which endpoint it polls, the fingerprint of its last response and the
\* snapshot it holds (a status for /watch, an agent for /watch/1)
Holds(kind, since, snapshot) == [kind |-> kind, since |-> since, snapshot |-> snapshot]
WatchIdle == [pc |-> "idle"]
WatchPolling(kind, fp, snapshot) ==
    [pc |-> "polling", kind |-> kind, fp |-> fp, snapshot |-> snapshot, polls |-> 0]

ConvInit ==
    /\ fleet = <<>>
    /\ fleet_changes = 0
    /\ watcher = Holds(None, NoSince, NoAgent)
    /\ conv_watch = WatchIdle

\* an agent starts, exits, changes its activity or writes a message
FleetChange ==
    /\ fleet_changes < MaxChanges
    /\ \E f \in ConvFleets \ {fleet} : fleet' = f
    /\ fleet_changes' = fleet_changes + 1
    /\ UNCHANGED <<watcher, conv_watch, nonConvVars>>

\* _load_status against the fleet of this moment
LoadFleet == Normalize(RequestSocket(StatusReply(fleet)).value)

\* GET /watch?fingerprint=<held>: _watch_global up to its loop
ClientWatch ==
    /\ conv_watch = WatchIdle
    /\ watcher.kind \in {None, "global"}
    /\ LET start == LoadFleet
       IN IF ~watcher.since.given \/ OutOfSync(watcher.since.fp, start.fingerprint)
          THEN /\ watcher' = Holds("global", SinceOf(start.fingerprint), start)
               /\ UNCHANGED conv_watch
          ELSE /\ conv_watch' = WatchPolling("global", start.fingerprint, start)
               /\ watcher' = [watcher EXCEPT !.kind = "global"]
    /\ UNCHANGED <<fleet, fleet_changes, nonConvVars>>

\* _watch_global: one pass of the loop
ClientWatchPoll ==
    /\ conv_watch.pc = "polling"
    /\ conv_watch.kind = "global"
    /\ conv_watch.polls < MaxPolls
    /\ LET curr == LoadFleet
       IN IF FingerprintDiffers(curr.fingerprint, conv_watch.fp)
          THEN /\ watcher' = Holds("global", SinceOf(curr.fingerprint), curr)
               /\ conv_watch' = WatchIdle
          ELSE /\ conv_watch' = [conv_watch EXCEPT !.polls = @ + 1]
               /\ UNCHANGED watcher
    /\ UNCHANGED <<fleet, fleet_changes, nonConvVars>>

\* GET /watch/1?fingerprint=<held>: _watch_pid_long_poll up to its loop
ClientWatchPid ==
    /\ conv_watch = WatchIdle
    /\ watcher.kind \in {None, "pid"}
    /\ LET agent0 == FindAgent(LoadFleet, 1)
       IN IF agent0 = NoAgent
          THEN /\ watcher' = Holds("pid", NoSince, NoAgent)
               /\ UNCHANGED conv_watch
          ELSE IF ~watcher.since.given \/ OutOfSync(watcher.since.fp, AgentFingerprint(agent0))
          THEN /\ watcher' = Holds("pid", SinceOf(AgentFingerprint(agent0)), agent0)
               /\ UNCHANGED conv_watch
          ELSE /\ conv_watch' = WatchPolling("pid", AgentFingerprint(agent0), agent0)
               /\ watcher' = [watcher EXCEPT !.kind = "pid"]
    /\ UNCHANGED <<fleet, fleet_changes, nonConvVars>>

\* _watch_pid_long_poll: one pass of the loop
ClientWatchPidPoll ==
    /\ conv_watch.pc = "polling"
    /\ conv_watch.kind = "pid"
    /\ conv_watch.polls < MaxPolls
    /\ LET curr == FindAgent(LoadFleet, 1)
       IN IF curr = NoAgent
          THEN /\ watcher' = Holds("pid", NoSince, NoAgent)
               /\ conv_watch' = WatchIdle
          ELSE IF FingerprintDiffers(AgentFingerprint(curr), conv_watch.fp)
          THEN /\ watcher' = Holds("pid", SinceOf(AgentFingerprint(curr)), curr)
               /\ conv_watch' = WatchIdle
          ELSE /\ conv_watch' = [conv_watch EXCEPT !.polls = @ + 1]
               /\ UNCHANGED watcher
    /\ UNCHANGED <<fleet, fleet_changes, nonConvVars>>

\* the deadline of either loop: timeout with the start fingerprint
ClientWatchDeadline ==
    /\ conv_watch.pc = "polling"
    /\ watcher' = [watcher EXCEPT !.since = SinceOf(conv_watch.fp)]
    /\ conv_watch' = WatchIdle
    /\ UNCHANGED <<fleet, fleet_changes, nonConvVars>>

\* the steps of the client and of the handler serving it
ClientStep ==
    ClientWatch \/ ClientWatchPoll \/ ClientWatchPid \/ ClientWatchPidPoll \/ ClientWatchDeadline

Init ==
    /\ SendInit /\ ScanInit /\ HttpInit /\ SockInit /\ LoadInit /\ MsgInit /\ EnqInit /\ EnvInit
    /\ ConvInit /\ ThrInit /\ AccInit /\ InjInit /\ WalkInit /\ ParseInit

NextSend ==
    \/ \E p \in Pids, m \in Messages : SendStart(p, m)
    \/ SendRouting
    \/ SendZellij
    \/ SendTmux
    \/ SendNoMux
    \/ SendBridgeOpen
    \/ SendEnqueue
    \/ SendAck
    \/ SendScript
    \/ SendTty
    \/ SendUi
    \/ SendReturn

SpecSend == Init /\ [][NextSend]_vars

\* the response was written; the daemon is ready for the next request
ScanReturn ==
    /\ scan_result # NoResult
    /\ scan_rows' = <<>>
    /\ scan_telemetry' = <<>>
    /\ scan_result' = NoResult
    /\ UNCHANGED nonScanVars

NextScan == ScanFiles \/ ScanCli \/ ScanReturn

SpecScan == Init /\ [][NextScan]_vars

NextHttp ==
    \/ HttpStart
    \/ HttpPost(HttpRequests)
    \/ HttpGetLocal(HttpRequests)
    \/ HttpGetStatus(HttpRequests)
    \/ HttpWatchStart(HttpRequests)
    \/ HttpWatchPidStart(HttpRequests)
    \/ HttpSseStart(HttpRequests)
    \/ HttpWatchPoll
    \/ HttpWatchPidPoll
    \/ HttpWatchDeadline
    \/ HttpSsePoll
    \/ HttpSseClosed

\* one request against a freshly started gateway, with every input of HttpRequests
SpecHttp == Init /\ [][NextHttp]_vars

\* the requests of the limiter runs: two clients that pass authorization, one body
\* that is forwarded and one that is refused
RateRequests ==
    {Request(c, Target("POST", "/send", b, NoSince, FALSE)) :
        c \in {[ip |-> "10.0.0.5", auth |-> "Bearer t", xtoken |-> ""],
               [ip |-> "192.168.1.9", auth |-> "", xtoken |-> "t"]},
        b \in {[length |-> LengthOf(40), json |-> Object(JInt(1), JStr(Words))],
               [length |-> NoLength, json |-> Unparsable]}}

NextRate ==
    \/ HttpPost(RateRequests)
    \/ HttpStart
    \/ HttpReturn
    \/ Tick

SpecRate == Init /\ [][NextRate]_vars

NextSocket == SrvAccept \/ SrvRecv \/ SrvParse \/ SrvWatchPoll \/ SrvSend \/ SrvClose

SpecSocket == Init /\ [][NextSocket]_vars

NextLoad == LoadStatus

SpecLoad == Init /\ [][NextLoad]_vars

NextMessage == TelemetryAgentMessage \/ LatestMessage

SpecMessage == Init /\ [][NextMessage]_vars

NextEnqueue ==
    \/ EnqStart \/ EnqOpen \/ EnqWrite \/ EnqReplace \/ EnqExcept \/ EnqAck
    \/ ConsumerRead \/ ConsumerTake

SpecEnqueue == Init /\ [][NextEnqueue]_vars

NextSettings == BridgeSettings

SpecSettings == Init /\ [][NextSettings]_vars

NextConverge ==
    \/ FleetChange
    \/ ClientWatch \/ ClientWatchPoll \/ ClientWatchPid \/ ClientWatchPidPoll
    \/ ClientWatchDeadline

\* requests and polls are scheduled fairly
SpecConverge == Init /\ [][NextConverge]_vars /\ WF_vars(ClientStep)

NextThreads ==
    \/ Serve
    \/ \E t \in Threads : ThrAccept(t)
    \/ \E t \in Threads : ThrCheck(t)
    \/ \E t \in Threads : ThrRecord(t)
    \/ ThrTick

\* three requests of one client ip, each on its own handler thread
SpecThreads == Init /\ [][NextThreads]_vars

NextAccept ==
    \/ \E c \in Peers : PeerConnect(c)
    \/ \E c \in Peers : PeerWrite(c)
    \/ \E c \in Peers : PeerHangUp(c)
    \/ LoopAccept
    \/ LoopRecv
    \/ LoopWork
    \/ LoopSend

\* the daemon is scheduled fairly and its loops end (deadline, retry count); the
\* clients connect, write, keep silent or close as they like
SpecAccept == Init /\ [][NextAccept]_vars /\ WF_vars(LoopStep)

NextInject ==
    \/ InjStart
    \/ InjZellij
    \/ InjTmux
    \/ InjNoMux
    \/ InjBridge
    \/ InjScript
    \/ InjTty
    \/ InjUi
    \/ InjReturn

\* send calls one after the other, each transport writing all, part or none of the text
SpecInject == Init /\ [][NextInject]_vars

NextWalk ==
    \/ MuxWalkStart
    \/ TerminalWalkStart
    \/ MuxWalkStep
    \/ TerminalWalkStep
    \/ WalkReturn

\* the walks run in the daemon's own thread: a pass that can be taken is taken
SpecWalk == Init /\ [][NextWalk]_vars /\ WF_vars(MuxWalkStep) /\ WF_vars(TerminalWalkStep)

NextParse == ParseSessionFile \/ ParseAgain

SpecParse == Init /\ [][NextParse]_vars

----------------------------------------------------------------------------
(* Properties of send_message *)

MuxTransports == {"zellij", "tmux"}
TerminalTransports == {"terminal-script", "tty-input", "ui-keystroke"}

Rank(t) ==
    CASE t \in MuxTransports -> 1
      [] t = "pi-bridge" -> 2
      [] t = "terminal-script" -> 3
      [] t = "tty-input" -> 4
      [] t = "ui-keystroke" -> 5

Attempted(ts) == \E i \in 1..Len(log) : log[i].t \in ts
Delivered == \E i \in 1..Len(log) : log[i].ok
\* the call got past its two preconditions
Accepted == pc # "idle" /\ ~msg_blank /\ target_comm = "pi"
Failed == pc = "done" /\ ~result.ok

\* C1: the transports are attempted in the order mux, bridge, terminal script, TTY
\* input, keystrokes (only the bridge repeats, for its retries); every attempt but
\* the last one failed; a successful attempt ends the call with ok:true and the
\* delivery tag of that transport, and an ok:true result names the last attempt.
C1_TransportOrder ==
    /\ \A i, j \in 1..Len(log) :
         i < j => /\ Rank(log[i].t) <= Rank(log[j].t)
                  /\ (Rank(log[i].t) = Rank(log[j].t) => log[i].t = "pi-bridge")
                  /\ ~log[i].ok
    /\ Delivered => pc = "done" /\ result.ok /\ result.delivery = log[Len(log)].t
    /\ (pc = "done" /\ result.ok) => log # <<>> /\ log[Len(log)].ok

C1_Witness ==
    /\ pc = "done"
    /\ result.ok
    /\ result.delivery = "tty-input"
    /\ Len(log) = 4
    /\ log[1].t = "tmux"
    /\ log[2].t = "pi-bridge"
    /\ log[3].t = "terminal-script"

BridgeFailed == bridge_result # NoResult /\ bridge_result # NoBridge /\ ~bridge_result.ok
BridgeField(k) == IF k \in DOMAIN bridge_result THEN bridge_result[k] ELSE None

\* the bridge stage ended on a rate-limited ack with every attempt used
BridgeExhaustedOnRateLimit ==
    /\ BridgeField("bridge_error") \in RateLimitFamily
    /\ bridge_result.bridge_attempt = retry_attempts

\* C2 as stated: after a bridge failure the terminal-level transports are attempted
\* exactly when the bridge exhausted its attempts on rate-limited acks, and every
\* other bridge failure is what send returns
C2_Original ==
    (pc = "done" /\ BridgeFailed) =>
        /\ Attempted(TerminalTransports) <=> BridgeExhaustedOnRateLimit
        /\ ~BridgeExhaustedOnRateLimit => result = bridge_result

\* the bridge's failure counts as rate-limited: the ack's error is of the
\* rate-limited family, or the ack's status text holds "rate_limited"
BridgeSaidRateLimited ==
    \/ BridgeField("bridge_error") \in RateLimitFamily
    \/ BridgeField("bridge_ack") = "rate_limited"

\* C2 amended: after a bridge failure send goes past the bridge stage exactly when
\* the last ack was rate-limited (error of the family, which ends the stage only with
\* every attempt used, or a status text holding "rate_limited"); it then fails with
\* the mux error for zellij/screen, and otherwise tries terminal scripting and TTY
\* input when the tty is known and keystrokes when a terminal app was detected;
\* every other bridge failure is returned as it is, with no later transport.
C2_Amended ==
    (pc = "done" /\ BridgeFailed) =>
        /\ ~BridgeSaidRateLimited => result = bridge_result /\ ~Attempted(TerminalTransports)
        /\ BridgeField("bridge_error") \in RateLimitFamily => bridge_result.bridge_attempt = retry_attempts
        /\ (BridgeSaidRateLimited /\ mux \in {"zellij", "screen"}) =>
              /\ ~Attempted(TerminalTransports)
              /\ ~result.ok
              /\ result.error = "could not deliver message via mux"
        /\ (BridgeSaidRateLimited /\ mux \notin {"zellij", "screen"}) =>
              /\ result # bridge_result
              /\ TtyUsable(tty) => Attempted({"terminal-script"})
              /\ (result.ok \/ ~TtyUsable(tty)) \/ Attempted({"tty-input"})
              /\ (~result.ok /\ detected_app # None) => Attempted({"ui-keystroke"})
              /\ result.ok => result.delivery \in TerminalTransports

C2_Witness ==
    /\ pc = "done"
    /\ BridgeFailed
    /\ BridgeField("bridge_ack") = "rate_limited"
    /\ bridge_result.bridge_attempt = 1
    /\ retry_attempts = 3
    /\ result.ok
    /\ result.delivery = "ui-keystroke"

InboxRange == 1..Len(inbox)

\* C3: the bridge stage enqueues at most N envelopes, N the clamped number of
\* attempts; envelope k+1 exists only after the ack of envelope k carried a
\* rate-limited error (and was not `delivered`); once the stage has ended nothing
\* more is enqueued; ids are pairwise different and meta.attempt counts 1, 2, ...
C3_BridgeAttempts ==
    /\ Len(inbox) <= retry_attempts
    /\ retry_attempts <= MaxRetries
    /\ \A i \in InboxRange : inbox[i].attempt = i
    /\ \A i, j \in InboxRange : i # j => inbox[i].id # inbox[j].id
    /\ (pc \in {"enqueue", "ack"} /\ attempt > 0) =>
          /\ last_error.bridge_error \in RateLimitFamily
          /\ last_error.bridge_ack # "delivered"
          /\ last_error.bridge_attempt = attempt
    /\ pc = "ack" => Len(inbox) = attempt + 1
    /\ bridge_result # NoResult => pc \notin {"enqueue", "ack"}
    /\ "bridge_attempt" \in DOMAIN bridge_result =>
          Len(inbox) = bridge_result.bridge_attempt

C3_Witness ==
    /\ pc = "done"
    /\ Len(inbox) = 3
    /\ result.ok
    /\ result.delivery = "pi-bridge"
    /\ result.bridge_attempts = 3

\* C4: with effective mux zellij or screen no terminal-level transport is ever
\* attempted, and the call fails unless the mux injection or the bridge delivered
C4_MuxGate ==
    (Accepted /\ pc \notin {"telemetry"} /\ mux \in {"zellij", "screen"}) =>
        /\ pc \notin {"script", "tty", "ui"}
        /\ ~Attempted(TerminalTransports)
        /\ (pc = "done" /\ ~Delivered) => ~result.ok

C4_Witness ==
    /\ pc = "done"
    /\ mux = "screen"
    /\ BridgeFailed
    /\ BridgeExhaustedOnRateLimit
    /\ result.error = "could not deliver message via mux"

PastMuxStage == Accepted /\ pc \notin {"telemetry", "mux"}

\* C5 as stated: a mux command is issued only for a known mux with a known session
C5_Original ==
    Attempted(MuxTransports) => mux \in KnownMuxes /\ mux_session # None

\* C5 amended: mux injection is attempted exactly when the effective mux is zellij
\* with a known session, or tmux with or without a session; for zellij without a
\* session, for screen and without a mux no mux command is issued.
C5_Amended ==
    /\ \A i \in 1..Len(log) :
         /\ log[i].t = "zellij" => mux = "zellij" /\ mux_session # None
         /\ log[i].t = "tmux" => mux = "tmux"
    /\ PastMuxStage =>
         (Attempted(MuxTransports) <=> (mux = "zellij" /\ mux_session # None) \/ mux = "tmux")

C5_Witness ==
    /\ pc = "done"
    /\ result.ok
    /\ result.delivery = "tmux"
    /\ result.mux_session = None
    /\ result.tmux_target = None

\* C6: a blank message or a pid without a pi row ends the call at once with
\* ok:false, no transport attempted and no envelope enqueued
C6_Preconditions ==
    (pc # "idle" /\ (msg_blank \/ target_comm # "pi")) =>
        /\ pc = "done"
        /\ ~result.ok
        /\ log = <<>>
        /\ inbox = <<>>
        /\ bridge_result = NoResult

C6_Witness ==
    /\ pc = "done"
    /\ ~msg_blank
    /\ target_comm = "zsh"
    /\ result.error = "pi pid not found"

\* C7 as stated: every delivery failure carries mux, mux_session, tty and terminal_app
C7_Original ==
    (Accepted /\ Failed) => {"mux", "mux_session", "tty", "terminal_app"} \subseteq DOMAIN result

----------------------------------------------------------------------------
(* Properties of scan *)

Scanned == scan_result # NoResult
AgentPids(agents) == {agents[i].pid : i \in 1..Len(agents)}
AgentSet(agents) == {agents[i] : i \in 1..Len(agents)}

\* C8: in every scan result the agents list is strictly ascending by pid (so no
\* pid appears twice), whatever the order of the process table and whatever the
\* telemetry instances, duplicates of a pid included
C8_AscendingPids ==
    Scanned =>
        \A i, j \in 1..Len(scan_result.agents) :
            i < j => scan_result.agents[i].pid < scan_result.agents[j].pid

\* two telemetry instances of one pid, which also has a pi row, in a process
\* table that ps did not print in pid order
C8_Witness ==
    /\ Scanned
    /\ Len(scan_telemetry) = 2
    /\ scan_telemetry[1].pid = scan_telemetry[2].pid
    /\ FindPiRow(scan_rows, scan_telemetry[1].pid) # Absent
    /\ Len(scan_rows) >= 2
    /\ scan_rows[1].pid > scan_rows[2].pid
    /\ Len(scan_result.agents) >= 2

NumberWith(agents, acts) == Cardinality({i \in 1..Len(agents) : agents[i].activity \in acts})

\* C9: summary.total is the number of agents and the sum of running, waiting_input
\* and unknown, running and waiting_input count the agents of that activity, and
\* (color, label) is gray/"No Pi agents" for no agent, red/"All agents running"
\* when nothing waits and nothing is unknown, green/"All agents waiting for input"
\* when every agent waits, and yellow/"Some agents waiting for input" otherwise
C9_Summary ==
    Scanned =>
        LET s == scan_result.summary
            agents == scan_result.agents
        IN /\ s.total = Len(agents)
           /\ s.total = s.running + s.waiting_input + s.unknown
           /\ s.running = NumberWith(agents, {"running"})
           /\ s.waiting_input = NumberWith(agents, {"waiting_input"})
           /\ <<s.color, s.label>> =
                CASE s.total = 0 -> <<"gray", "No Pi agents">>
                  [] s.total > 0 /\ s.waiting_input = 0 /\ s.unknown = 0 ->
                        <<"red", "All agents running">>
                  [] s.total > 0 /\ s.waiting_input = s.total /\ s.unknown = 0 ->
                        <<"green", "All agents waiting for input">>
                  [] OTHER -> <<"yellow", "Some agents waiting for input">>

\* some agents run, some wait, none is unknown
C9_Witness ==
    /\ Scanned
    /\ scan_result.summary.running > 0
    /\ scan_result.summary.waiting_input > 0
    /\ scan_result.summary.unknown = 0
    /\ scan_result.summary.color = "yellow"

\* C10: with at least one telemetry agent the agents are the union by pid of the
\* process-fallback agents and the telemetry agents, a pid that telemetry reports
\* carrying a telemetry record and every other pid its process-fallback record,
\* and source is "pi-telemetry"; with no telemetry agent the agents are exactly the
\* process-fallback agents and source is "process-fallback"
C10_MergeRule ==
    Scanned =>
        LET agents == scan_result.agents
            process_agents == AgentsFromProcesses(scan_rows)
            telemetry_agents == AgentsFromTelemetry(scan_telemetry, scan_rows)
        IN IF telemetry_agents # <<>>
           THEN /\ scan_result.source = "pi-telemetry"
                /\ AgentPids(agents) = AgentPids(process_agents) \cup AgentPids(telemetry_agents)
                /\ \A i \in 1..Len(agents) :
                     IF agents[i].pid \in AgentPids(telemetry_agents)
                     THEN agents[i] \in AgentSet(telemetry_agents)
                     ELSE agents[i] \in AgentSet(process_agents)
           ELSE /\ scan_result.source = "process-fallback"
                /\ AgentSet(agents) = AgentSet(process_agents)
                /\ Len(agents) = Len(process_agents)

\* telemetry reports one pid that has a pi row; another pi row has no telemetry
C10_Witness ==
    /\ Scanned
    /\ scan_result.source = "pi-telemetry"
    /\ \E i, j \in 1..Len(scan_result.agents) :
         /\ scan_result.agents[i].extension_pi_telemetry
         /\ FindPiRow(scan_rows, scan_result.agents[i].pid) # Absent
         /\ ~scan_result.agents[j].extension_pi_telemetry

\* C11 as stated: every telemetry instance behind an agent of a scan result has a
\* pid that passed the signal-0 probe, whether it came from a file or from the CLI
C11_Original ==
    Scanned => \A i \in 1..Len(scan_telemetry) : scan_telemetry[i].alive

\* the telemetry instance that the merge keeps for a pid: the last one of that pid
LastInstance(p) ==
    LET idx == {i \in 1..Len(scan_telemetry) : scan_telemetry[i].pid = p}
    IN scan_telemetry[CHOOSE i \in idx : \A j \in idx : j <= i]

\* the mapping over the fields of a state dict
ByStateFields(st) ==
    CASE st.activity = "working" -> "running"
      [] st.activity = "waiting_input" -> "waiting_input"
      [] st.activity \notin {"working", "waiting_input"} /\ st.waitingForInput = "true" -> "waiting_input"
      [] st.activity \notin {"working", "waiting_input"} /\ st.waitingForInput # "true"
           /\ (st.busy = "true" \/ st.isIdle = "false") -> "running"
      [] OTHER -> "unknown"

\* the mapping for a process row
ByProcessRow(row) ==
    CASE StartsWith(row.state, "R") -> <<"running", "high">>
      [] ~StartsWith(row.state, "R") /\ row.cpu >= CpuBusyTenths -> <<"running", "medium">>
      [] ~StartsWith(row.state, "R") /\ row.cpu < CpuBusyTenths
           /\ StartsWith(row.state, "S") /\ row.tty # "??" -> <<"waiting_input", "medium">>
      [] OTHER -> <<"unknown", "low">>

ActivityAsStated(st) == IF st.dict THEN ByStateFields(st) ELSE "unknown"

ActivityWithBareState(st) ==
    IF st.dict THEN ByStateFields(st)
    ELSE IF st.text \in {"working"} THEN "running"
    ELSE IF st.text \in {"waiting_input"} THEN "waiting_input"
    ELSE "unknown"

AgentsMatch(bare) ==
    \A i \in 1..Len(scan_result.agents) :
        LET a == scan_result.agents[i]
        IN IF a.extension_pi_telemetry
           THEN a.confidence = "high" /\ a.activity = (IF bare THEN ActivityWithBareState(LastInstance(a.pid).state)
                                                    ELSE ActivityAsStated(LastInstance(a.pid).state))
           ELSE <<a.activity, a.confidence>> = ByProcessRow(ByPid(scan_rows, a.pid))

\* C12 as stated: the activity of a telemetry agent follows from the fields of
\* state (activity, waitingForInput, busy, isIdle) alone, and is unknown otherwise
C12_Original == Scanned => AgentsMatch(FALSE)

\* C12 amended: a telemetry agent has confidence high and the activity given by
\* the fields of its state dict, or, when state is itself the string "working" or
\* "waiting_input" instead of a dict, running or waiting_input; a process-only
\* agent has the (activity, confidence) of its process row
C12_Amended == Scanned => AgentsMatch(TRUE)

\* a telemetry agent whose state is the bare string "working", next to a
\* process-only agent that is running by its cpu share
C12_Witness ==
    /\ Scanned
    /\ \E i, j \in 1..Len(scan_result.agents) :
         /\ scan_result.agents[i].extension_pi_telemetry
         /\ LastInstance(scan_result.agents[i].pid).state = StateText("working")
         /\ scan_result.agents[i].activity = "running"
         /\ ~scan_result.agents[j].extension_pi_telemetry
         /\ scan_result.agents[j].confidence = "medium"
         /\ scan_result.agents[j].activity = "running"

----------------------------------------------------------------------------
(* Properties of the HTTP gateway *)

Handled == http_pc = "done" /\ http_req # NoRequest
\* the client address lies in no network of the allow list
OutsideAllowList ==
    /\ cfg.allow_cidrs # <<>>
    /\ \A i \in 1..Len(cfg.allow_cidrs) : ~InNetwork(http_req.ip, cfg.allow_cidrs[i])

\* C13: with a non-empty allow_cidrs list, a request from an address outside every
\* listed network is answered 401 on GET and POST alike, whatever its token and
\* whether or not it comes from loopback; nothing is written to the daemon and the
\* limiter is left as it was.
C13_CidrFirst ==
    (http_req # NoRequest /\ OutsideAllowList) =>
        /\ http_pc = "done"
        /\ http_resp = Unauthorized
        /\ http_sent = <<>>
        /\ recent = recent_before

C13_Witness ==
    /\ Handled
    /\ OutsideAllowList
    /\ http_req.ip = "127.0.0.1"
    /\ cfg.allow_loopback_unauth
    /\ cfg.token = "t"
    /\ http_req.auth = "Bearer t"
    /\ http_req.method = "POST"
    /\ http_req.path = "/send"
    /\ http_resp = Unauthorized

\* the request passed the CIDR check and is not exempted as loopback
NeedsToken ==
    /\ CidrAllowed(http_req.ip, cfg.allow_cidrs)
    /\ ~(cfg.allow_loopback_unauth /\ IsLoopback(http_req.ip))
\* one of the two presented credentials equals the configured token
PresentsToken ==
    \/ StartsWithBearer(http_req.auth) /\ BearerValue(http_req.auth) = cfg.token
    \/ StripHeader(http_req.xtoken) = cfg.token

\* C14: a request that passes the CIDR check and is not exempted as loopback is
\* authorized exactly when a token is configured and the Bearer value or the
\* X-Statusd-Token value equals it; with no token configured it gets 401.
C14_Original ==
    (Handled /\ NeedsToken) =>
        ((http_resp # Unauthorized) <=> (cfg.token # None /\ PresentsToken))

RECURSIVE AdmittedBetween(_, _, _)
\* the POST /send requests of ip that the limiter let pass in the seconds a..b
AdmittedBetween(ip, a, b) ==
    IF a > b THEN 0
    ELSE (IF a \in Times THEN admitted[ip][a] ELSE 0) + AdmittedBetween(ip, a + 1, b)

\* the request got as far as the limiter
ReachedLimiter ==
    /\ Handled
    /\ http_req.method = "POST"
    /\ http_resp \notin {Unauthorized, NotFound}
RateLimited == http_resp = Response(429, FALSE, "send rate limit exceeded")
\* 1 when the request being handled was let pass
AdmittedNow == IF RateLimited THEN 0 ELSE 1

\* C15: per client ip the limiter lets at most `limit` POST /send requests pass in
\* any window of 10 seconds; a request is refused, with 429 "send rate limit
\* exceeded" and without being recorded, exactly when `limit` requests of its ip
\* were let pass in the 10 seconds before it, so a new one passes once the oldest
\* is more than 10 s old; requests of other ips leave an ip's window alone.
C15_RateWindow ==
    /\ http_pc # "down" =>
         \A ip \in Ips : \A t \in Times :
             AdmittedBetween(ip, t, t + RateWindowSeconds) <= cfg.limit
    /\ ReachedLimiter =>
         /\ RateLimited <=>
              AdmittedBetween(http_req.ip, clock - RateWindowSeconds, clock) - AdmittedNow >= cfg.limit
         /\ http_resp.code = 429 => RateLimited
         /\ RateLimited => /\ Len(recent[http_req.ip]) <= Len(recent_before[http_req.ip])
                           /\ clock \in Times => AdmittedBetween(http_req.ip, clock, clock) <= Len(recent[http_req.ip])
                           /\ http_sent = <<>>
    /\ http_req # NoRequest =>
         \A ip \in Ips \ {http_req.ip} : recent[ip] = recent_before[ip]

C15_Witness ==
    /\ ReachedLimiter
    /\ cfg.limit = 2
    /\ http_req.ip = "10.0.0.5"
    /\ admitted["10.0.0.5"][0] = 2
    /\ clock = 11
    /\ ~RateLimited
    /\ admitted["10.0.0.5"][11] = 1
    /\ Len(recent["192.168.1.9"]) = 2

\* the request got past authorization, the path test and the limiter
PostAdmitted == ReachedLimiter /\ ~RateLimited
\* the stated conditions for forwarding, read off the request
WellFormedSend ==
    LET b == http_req.body
    IN /\ b.length.given /\ b.length.numeric
       /\ 0 < b.length.value /\ b.length.value <= MaxBodyBytes
       /\ b.json.kind = "object"
       /\ b.json.pid.t = "int" /\ b.json.pid.v > 0
       /\ b.json.message.t = "str"
       /\ Cleaned(b.json.message.runs) # <<>>
       /\ RunsLen(Cleaned(b.json.message.runs)) <= MaxMessageChars
Forwarded == Len(http_sent) = 1 /\ http_sent[1].line.cmd = "send"

\* C16: an authorized, non-rate-limited POST /send is forwarded exactly when
\* 0 < Content-Length <= 100000, the body is a JSON object whose pid is an integer
\* > 0 and whose message is a string that, cleaned, is non-empty and at most 4000
\* characters long; every other such request is answered 400 {ok:false, error} and
\* nothing is sent.
C16_Original ==
    PostAdmitted =>
        /\ Forwarded <=> WellFormedSend
        /\ ~WellFormedSend => /\ http_resp.code = 400
                              /\ ~http_resp.ok
                              /\ http_sent = <<>>

\* the handler asked the daemon and every answer it got was a failure: no
\* connection, or a connection closed without a byte
AskedDaemon == http_sent # <<>>
LongPollOrStatus ==
    \/ http_req.method = "GET" /\ RStripSlash(http_req.path) \in {"/status", "/watch"}
    \/ http_req.method = "GET" /\ RStripSlash(http_req.path) = "/watch/1" /\ ~http_req.sse
    \/ http_req.method = "POST" /\ RStripSlash(http_req.path) = "/send"
\* the last answer of the daemon was no connection, or a connection closed
\* without a byte
UpstreamFailed ==
    /\ AskedDaemon
    /\ http_sent[Len(http_sent)].up.up \in {"unreachable", "empty"}

\* C17: when the daemon is unreachable or returns an empty response, GET /status,
\* GET /watch, the long-poll GET /watch/<pid> and POST /send answer 502 with
\* {ok:false, error}, never 200.
C17_Original ==
    (Handled /\ LongPollOrStatus /\ UpstreamFailed) =>
        /\ http_resp.code = 502
        /\ ~http_resp.ok

----------------------------------------------------------------------------
(* Properties of the socket server *)

\* handle_client has returned for the last connection accepted
Served == srv_pc = "accept" /\ srv_req # Line(<<>>, " ")

\* C18: whatever a connection sends and whatever is raised while it is handled,
\* the accept loop is never left: at most one response is written on a connection,
\* no exception leaves handle_client, and the connection is closed by the time the
\* server is back at accept.
C18_LoopSurvives ==
    /\ srv_pc # "stopped"
    /\ srv_exc = None
    /\ srv_written <= 1
    /\ srv_pc = "accept" => ~srv_open
    /\ srv_pc \in {"recv", "parse", "watch", "send", "close"} => srv_open

C18_Witness ==
    /\ Served
    /\ srv_req = Line(<<W("jump"), W("5")>>, " ")
    /\ srv_resp = NoReply
    /\ srv_written = 0
    /\ ~srv_open

CommandWords == {W("status"), W("ping"), W("jump"), W("latest"), W("send"), W("watch")}
\* parse_request has returned, or is in its watch loop
Parsed == srv_pc \in {"watch", "send"} /\ srv_open
LongPolling == srv_pc = "watch" \/ (srv_pc = "send" /\ "event" \in DOMAIN srv_resp)

\* C19: a request line whose first word is none of status, ping, jump, latest,
\* send, watch is answered "unknown request: ..." (the empty line is status), and
\* only a line whose first word is exactly watch starts a long-poll.
C19_Original ==
    Parsed =>
        /\ (srv_req.words # <<>> /\ srv_req.words[1] \notin CommandWords) =>
               (srv_pc = "send" /\ srv_resp = UnknownRequest(srv_req))
        /\ LongPolling => (srv_req.words # <<>> /\ srv_req.words[1] = W("watch"))

\* parse_request has returned from the watch loop of a line "watch <ms> <fingerprint>"
WatchAnswered ==
    /\ srv_pc = "send"
    /\ "event" \in DOMAIN srv_resp
    /\ Len(srv_req.words) >= 3
    /\ srv_req.words[1] = W("watch")
\* the fingerprint as the client wrote it after the timeout
Supplied == SubSeq(srv_req.words, 3, Len(srv_req.words))
\* every scan of the loop had the supplied fingerprint
NothingChanged == \A i \in 1..Len(srv_scans) : SockFingerprint(srv_scans[i]) = Supplied

\* C20: a watch whose supplied fingerprint is the one a watch response returned is
\* answered event=timeout when no scan up to the deadline differs from it, and
\* event=status_changed, with the snapshot, when the first scan or a later one does.
C20_Original ==
    WatchAnswered =>
        /\ NothingChanged => srv_resp.event = "timeout"
        /\ ~NothingChanged =>
              /\ srv_resp.event = "status_changed"
              /\ srv_resp.fingerprint = SockFingerprint(srv_scans[Len(srv_scans)])
              /\ srv_resp.status = StatusDict(srv_scans[Len(srv_scans)])

----------------------------------------------------------------------------
(* Properties of the HTTP watch endpoints *)

\* the daemon answered every status request of the handler with a dict
AllAnswered == \A i \in 1..Len(http_sent) : ~RequestSocket(http_sent[i].up).raised
\* the status the handler got from its i-th request
Scan(i) == Normalize(RequestSocket(http_sent[i].up).value)
Scans == Len(http_sent)

\* a GET /watch of an authorized client has returned and no request to the daemon failed
WatchDone ==
    /\ Handled
    /\ http_req.method = "GET"
    /\ RStripSlash(http_req.path) = "/watch"
    /\ http_resp # Unauthorized
    /\ AllAnswered

\* C21: GET /watch answers one event: snapshot at once when no fingerprint is given,
\* out_of_sync at once when the given fingerprint is not that of the first scan,
\* otherwise status_changed with the first polled snapshot whose fingerprint
\* differs from the start fingerprint, and timeout only if every poll had the start
\* fingerprint.
C21_WatchEvents ==
    WatchDone =>
        /\ http_resp.code = 200
        /\ Scans >= 1
        /\ IF ~http_req.since.given
           THEN /\ http_resp.event = "snapshot"
                /\ Scans = 1
                /\ http_resp.status = Scan(1)
           ELSE IF http_req.since.fp # Scan(1).fingerprint
           THEN /\ http_resp.event = "out_of_sync"
                /\ Scans = 1
                /\ http_resp.status = Scan(1)
           ELSE /\ \A i \in 2..(Scans - 1) : Scan(i).fingerprint = Scan(1).fingerprint
                /\ \/ /\ http_resp.event = "status_changed"
                      /\ Scans >= 2
                      /\ Scan(Scans).fingerprint # Scan(1).fingerprint
                      /\ http_resp.status = Scan(Scans)
                      /\ http_resp.fingerprint = Scan(Scans).fingerprint
                   \/ /\ http_resp.event = "timeout"
                      /\ \A i \in 1..Scans : Scan(i).fingerprint = Scan(1).fingerprint
                      /\ http_resp.fingerprint = Scan(1).fingerprint

C21_Witness ==
    /\ WatchDone
    /\ http_req.since.given
    /\ Scans = 3
    /\ Scan(2).fingerprint = Scan(1).fingerprint
    /\ http_resp.event = "status_changed"
    /\ Len(http_resp.status.agents) = 2

\* a long-poll GET /watch/1 of an authorized client has returned and no request to
\* the daemon failed
PidWatchDone ==
    /\ Handled
    /\ http_req.method = "GET"
    /\ RStripSlash(http_req.path) = "/watch/1"
    /\ ~http_req.sse
    /\ http_resp # Unauthorized
    /\ AllAnswered
\* the watched agent in the i-th scan
Watched(i) == FindAgent(Scan(i), 1)
Present(i) == Watched(i) # NoAgent
SameAsFirst(i) == Present(i) /\ AgentFingerprint(Watched(i)) = AgentFingerprint(Watched(1))
\* the stated classification of a change
StatedEvent(before, after) ==
    IF before.latest_message_id # after.latest_message_id THEN "message_updated"
    ELSE IF before.activity # after.activity THEN "activity_changed"
    ELSE "agent_updated"

\* C22: long-poll GET /watch/<pid>: pid not found when the first scan lacks the pid,
\* snapshot without fingerprint, out_of_sync on a fingerprint that is not the
\* agent's, otherwise agent_gone at the first poll without the agent, the classified
\* event (message_updated before activity_changed before agent_updated) at the first
\* poll with another fingerprint, and timeout only if the agent stayed unchanged.
C22_PidWatchEvents ==
    PidWatchDone =>
        /\ Scans >= 1
        /\ IF ~Present(1)
           THEN http_resp = Response(404, FALSE, "pid not found") /\ Scans = 1
           ELSE IF ~http_req.since.given
           THEN http_resp = AgentSnapshot("snapshot", Watched(1)) /\ Scans = 1
           ELSE IF http_req.since.fp # AgentFingerprint(Watched(1))
           THEN http_resp = AgentSnapshot("out_of_sync", Watched(1)) /\ Scans = 1
           ELSE /\ http_resp.code = 200
                /\ \A i \in 2..(Scans - 1) : SameAsFirst(i)
                /\ \/ /\ http_resp.event = "agent_gone"
                      /\ Scans >= 2
                      /\ ~Present(Scans)
                   \/ /\ Scans >= 2
                      /\ Present(Scans)
                      /\ ~SameAsFirst(Scans)
                      /\ http_resp = AgentSnapshot(StatedEvent(Watched(1), Watched(Scans)), Watched(Scans))
                   \/ /\ http_resp.event = "timeout"
                      /\ \A i \in 1..Scans : SameAsFirst(i)
                      /\ http_resp.fingerprint = AgentFingerprint(Watched(1))

C22_Witness ==
    /\ PidWatchDone
    /\ http_req.since.given
    /\ Scans = 3
    /\ SameAsFirst(2)
    /\ Present(3)
    /\ Watched(3).activity # Watched(1).activity
    /\ http_resp.event = "message_updated"

\* an event stream for /watch/1 of an authorized client is open or has ended, and no
\* request to the daemon failed
SseServing ==
    /\ http_pc \in {"polling", "done"}
    /\ http_req.method = "GET"
    /\ RStripSlash(http_req.path) = "/watch/1"
    /\ http_req.sse
    /\ http_resp # Unauthorized
    /\ AllAnswered
    /\ Scans >= 1
Events == http_resp.events
ChangeEvents == {"message_updated", "activity_changed", "agent_updated"}
\* the state of the agent that the stream reported last, after the first k scans
RECURSIVE Reported(_)
Reported(k) ==
    IF k = 1 THEN Watched(1)
    ELSE IF Present(k) /\ AgentFingerprint(Watched(k)) # AgentFingerprint(Reported(k - 1))
    THEN Watched(k)
    ELSE Reported(k - 1)
\* the change events the polls 2..k are stated to produce: name and fingerprint
RECURSIVE StatedChanges(_)
StatedChanges(k) ==
    IF k = 1 THEN <<>>
    ELSE IF ~Present(k) THEN Append(StatedChanges(k - 1), <<"agent_gone", NoFingerprint>>)
    ELSE IF AgentFingerprint(Watched(k)) # AgentFingerprint(Reported(k - 1))
    THEN Append(StatedChanges(k - 1),
                <<StatedEvent(Reported(k - 1), Watched(k)), AgentFingerprint(Watched(k))>>)
    ELSE StatedChanges(k - 1)
NamesOf(events) == [i \in 1..Len(events) |-> <<events[i].event, events[i].fingerprint>>]
\* the events after the bootstrap
AfterBootstrap ==
    IF Events # <<>> /\ Events[1].event \in {"snapshot", "out_of_sync"} THEN Tail(Events) ELSE Events

\* C23: event stream of /watch/<pid>: without Last-Event-ID the first event is
\* snapshot, with another Last-Event-ID it is out_of_sync with the current
\* fingerprint, with the current one there is no bootstrap event and the first event
\* reports another fingerprint; every change event is computed against the state the
\* previous event reported, so consecutive events differ in fingerprint.
C23_SseBootstrap ==
    (SseServing /\ Present(1)) =>
        LET fp1 == AgentFingerprint(Watched(1))
            last_event_id == http_req.since
        IN /\ ~last_event_id.given =>
                /\ Len(Events) >= 1
                /\ NamesOf(Events)[1] = <<"snapshot", fp1>>
           /\ (last_event_id.given /\ last_event_id # EventId(1, fp1)) =>
                /\ Len(Events) >= 1
                /\ NamesOf(Events)[1] = <<"out_of_sync", fp1>>
           /\ last_event_id = EventId(1, fp1) =>
                /\ \A i \in 1..Len(Events) : Events[i].event \notin {"snapshot", "out_of_sync"}
                /\ Len(Events) >= 1 => Events[1].fingerprint # last_event_id.fp
           /\ NamesOf(AfterBootstrap) = StatedChanges(Scans)
           /\ \A i \in 1..(Len(Events) - 1) : Events[i + 1].fingerprint # Events[i].fingerprint

C23_Witness ==
    /\ SseServing
    /\ Present(1)
    /\ http_req.since = EventId(1, AgentFingerprint(Watched(1)))
    /\ Scans = 3
    /\ Len(Events) = 2
    /\ Events[1].event = "activity_changed"
    /\ Events[2].event = "activity_changed"
    /\ Events[2].fingerprint = AgentFingerprint(Watched(1))

\* an event stream for /watch/1 has been opened
SseStream ==
    /\ http_pc \in {"polling", "done"}
    /\ http_req.method = "GET"
    /\ http_req.sse
    /\ "events" \in DOMAIN http_resp
\* the id line has the form <pid>:<fingerprint>
PidFingerprintId(id) == id.given /\ id.pid = 1 /\ id.fp.kind = "agent"

\* C24: every event written on the stream of /watch/<pid>, error and agent_gone
\* included, has an id line of the form <pid>:<fingerprint>.
C24_Original ==
    SseStream => \A i \in 1..Len(Events) : PidFingerprintId(Events[i].id)

----------------------------------------------------------------------------
(* Properties of the gateway's fingerprint *)

\* the (pid, activity, latest_message_id) triples of a normalized status
Triples(status) == {Compact(status.agents[i]) : i \in 1..Len(status.agents)}

\* C25: the whole-fleet fingerprint of the gateway is determined by the set of
\* (pid, activity, latest_message_id) triples: two scans with the same triples, in
\* any order and whatever their other fields, have the same fingerprint.
C25_FingerprintOfTriples ==
    Len(loaded) = 2 =>
        (Triples(loaded[1].status) = Triples(loaded[2].status)
            => loaded[1].status.fingerprint = loaded[2].status.fingerprint)

C25_Witness ==
    /\ Len(loaded) = 2
    /\ Len(loaded[1].agents) = 3
    /\ Len(loaded[2].agents) = 3
    /\ loaded[1].agents[1].pid = 3
    /\ loaded[2].agents[1].pid = 2
    /\ loaded[1].agents[1].cpu # loaded[2].agents[2].cpu
    /\ Triples(loaded[1].status) = Triples(loaded[2].status)
    /\ loaded[1].status.fingerprint = loaded[2].status.fingerprint

----------------------------------------------------------------------------
(* Properties of the latest message *)

Produced == msg_result # NoMessageResult
\* the stated projection: whitespace runs become one space, a result longer than
\* GistMax keeps "..." and its last GistTail characters
StatedGist(full) ==
    LET collapsed == CollapseWhite(Canon(full.runs))
    IN IF RunsLen(collapsed) > GistMax
       THEN Text(Canon(<<Run(".", 3)>> \o TakeLast(collapsed, GistTail)))
       ELSE Text(collapsed)

\* C26: latest_message is the projection of latest_message_full (whitespace runs
\* collapsed, "..." plus the last 417 characters beyond 420), is absent exactly when
\* latest_message_full is absent or empty, and has at most 420 characters.
C26_GistOfFull ==
    Produced =>
        /\ msg_result.latest_message = NoText <=> ~Truthy(msg_result.latest_message_full)
        /\ Truthy(msg_result.latest_message_full) =>
             msg_result.latest_message = StatedGist(msg_result.latest_message_full)
        /\ RunsLen(msg_result.latest_message.runs) <= GistMax

C26_Witness ==
    /\ Produced
    /\ msg_result.kind = "agent"
    /\ msg_sources.file.kind = "merged"
    /\ Len(msg_result.latest_message_full.runs) = 4
    /\ RunsLen(msg_result.latest_message_full.runs) = FullMax
    /\ msg_result.latest_message = Text(<<Run(".", 3), Run("b", GistTail - 3), Run(".", 3)>>)

\* C27: latest_message_full has at most 12,000 characters whichever source it comes
\* from.
C27_Original ==
    Produced => RunsLen(msg_result.latest_message_full.runs) <= FullMax

----------------------------------------------------------------------------
(* Properties of the bridge enqueue and of its settings *)

\* C28: a consumer reading inbox/<pid>/*.json sees complete envelopes only: no file
\* matching *.json ever has partial content, nothing the consumer has read was
\* partial, and a failed enqueue leaves no <id>.json of its envelope.
C28_AtomicEnqueue ==
    /\ \A f \in enq_files : MatchesJson(f.name) => f.content = "complete"
    /\ \A f \in enq_seen : f.content = "complete"
    /\ enq_pc = "failed" => Named(enq_files, InboxFile(EnqId)) = {}

C28_Witness ==
    /\ enq_pc = "write"
    /\ File(InboxFile(1), "complete") \in enq_seen
    /\ File(TmpFile(2), "partial") \in enq_files

\* C29: an ack file that is not parseable JSON is discarded and is not a terminal
\* ack: no call returns because of it.
C29_Original ==
    ~(/\ bridge_result # NoBridge
      /\ "bridge_error" \in DOMAIN bridge_result
      /\ bridge_result.bridge_error = "invalid_ack")

Settled == bridge_settings # NoSettings
IsInteger(env) == env.set /\ env.parses

\* C30: for every integer v of PI_BRIDGE_SEND_RETRIES, 0 and negatives included,
\* the attempts are min(8, max(1, v)); for every integer w of
\* PI_BRIDGE_SEND_RETRY_BACKOFF_MS the backoff is min(3000, max(100, w)); an unset
\* or unparseable value gives 3 and 450.
C30_Original ==
    Settled =>
        /\ IF IsInteger(bridge_env.retries)
           THEN bridge_settings.retry_attempts = Min(MaxRetries, Max(1, bridge_env.retries.value))
           ELSE bridge_settings.retry_attempts = DefaultRetries
        /\ IF IsInteger(bridge_env.backoff)
           THEN bridge_settings.retry_backoff_ms
                    = Min(MaxBackoffMs, Max(MinBackoffMs, bridge_env.backoff.value))
           ELSE bridge_settings.retry_backoff_ms = DefaultBackoffMs

----------------------------------------------------------------------------
(* Properties of the changes list of GET /watch *)

PidsOf(status) == {status.agents[i].pid : i \in 1..Len(status.agents)}
\* presence, activity or latest_message_id of the pid differ between two statuses
PidDiffers(before, after, p) ==
    LET a == FindAgent(before, p)
        b == FindAgent(after, p)
    IN IF a = NoAgent \/ b = NoAgent THEN a # b
       ELSE a.activity # b.activity \/ a.latest_message_id # b.latest_message_id
HasRecord(changes, p) == \E i \in 1..Len(changes) : changes[i].pid = p
StatusChanged == WatchDone /\ http_resp.event = "status_changed"

\* C31: the changes list of a status_changed response has a record for every pid
\* that appeared, changed or vanished between the start snapshot and the current
\* one, and none for a pid that did not change.
C31_Original ==
    StatusChanged =>
        \A p \in PidsOf(Scan(1)) \cup PidsOf(Scan(Scans)) :
            PidDiffers(Scan(1), Scan(Scans), p) <=> HasRecord(http_resp.changes, p)

----------------------------------------------------------------------------
(* Properties of repeated long-polling *)

\* the client holds the fingerprint and the snapshot of the fleet as it is now
Converged ==
    IF watcher.kind = "global"
    THEN watcher = Holds("global", SinceOf(LoadFleet.fingerprint), LoadFleet)
    ELSE IF watcher.kind = "pid"
    THEN LET agent == FindAgent(LoadFleet, 1)
         IN IF agent = NoAgent THEN watcher = Holds("pid", NoSince, NoAgent)
            ELSE watcher = Holds("pid", SinceOf(AgentFingerprint(agent)), agent)
    ELSE FALSE

\* C32: once the fleet has stopped changing, a client that keeps long-polling with
\* the fingerprint of its last response eventually holds, and keeps, the fingerprint
\* and snapshot of the final state.
C32_Convergence == <>[]Converged

C32_Witness ==
    /\ fleet_changes >= 2
    /\ watcher.kind = "global"
    /\ conv_watch.pc = "polling"
    /\ conv_watch.polls >= 1
    /\ Len(fleet) = 2
    /\ Converged

----------------------------------------------------------------------------
(* Properties of the send limiter under handler threads *)

\* every thread has left allow(): none is between the test and the append
NoThreadInAllow == \A t \in Threads : thr[t].pc \notin {"allow", "record"}

\* the limit the gateway was started with
ServedLimit == listeners["http"].limit

\* C33: whatever the interleaving of the test len(q) >= limit and of q.append(now)
\* of several handler threads of one listener, that listener's limiter lets at
\* most `limit` POST /send requests of one client ip pass within 10 seconds.
C33_Original ==
    listeners["http"].up =>
        \A l \in Listeners : thr_admitted[l] <= ServedLimit

\* C38: requests of one client ip over the HTTP listener and over the HTTPS
\* listener are counted in one window: while each listener keeps to the limit,
\* both together let at most `limit` requests pass within 10 seconds.
C38_Original ==
    (listeners["http"].up /\ \A l \in Listeners : thr_admitted[l] <= ServedLimit) =>
        thr_admitted["http"] + thr_admitted["https"] <= ServedLimit

----------------------------------------------------------------------------
(* Properties of the accept loop *)

\* the connection of client c is in the backlog or in handle_client
Connected(c) == peer[c].at \in {"silent", "wrote", "hungup"}

\* C34: every connection the daemon accepts is eventually answered or closed, and
\* so is every connection waiting behind it, whatever the other clients do
\* (keep silent, run a long watch or a send with retries).
C34_Original ==
    \A c \in Peers :
        /\ (acc_conn = c) ~> (peer[c].at = "done")
        /\ Connected(c) ~> (peer[c].at = "done")

----------------------------------------------------------------------------
(* Properties of the characters written by one send *)

\* C35: in one send call at most one transport writes characters of the message:
\* once a transport has written any part of the text (zellij write-chars exited
\* 0, or characters were pushed into the tty input queue), no later transport
\* is attempted.
C35_Original ==
    \A i \in 1..Len(inj_log) : inj_log[i].wrote > 0 => i = Len(inj_log)

----------------------------------------------------------------------------
(* Properties of a bridge send that failed *)

\* an envelope in inbox/<pid>/ that the consumer has not read yet
Pending(f) == MatchesJson(f.name) /\ f \notin enq_seen

\* C36: when the bridge stage returns ok:false (failure ack or "bridge ack
\* timeout"), no envelope the call enqueued is left in inbox/<pid>/ for the
\* consumer to pick up.
C36_Original ==
    enq_pc \in {"refused", "timed_out"} => \A f \in enq_files : ~Pending(f)

----------------------------------------------------------------------------
(* Properties of the pids a scan reports *)

\* send_message, lines 726-730: the pid has a row whose comm is "pi"
SendFindsPid(rows, p) == FindPiRow(rows, p) # Absent
\* latest_message, lines 658-663: the same test
LatestFindsPid(rows, p) == FindPiRow(rows, p) # Absent

\* C37: every pid among the agents of a scan is accepted by send <pid> and by
\* latest <pid> against the same process table: neither answers "pi pid not
\* found", telemetry-sourced agents without a "pi" row included.
C37_Original ==
    scan_result # NoResult =>
        \A i \in 1..Len(scan_result.agents) :
            /\ SendFindsPid(scan_rows, scan_result.agents[i].pid)
            /\ LatestFindsPid(scan_rows, scan_result.agents[i].pid)

----------------------------------------------------------------------------
(* Properties of the ancestor walks *)

ExaminedRange == 1..Len(walk_examined)

\* the pids looked up are the ancestors in order: the parent of the pi process
\* (the pi process itself for the terminal walk), then each one's parent
FollowsParents ==
    \A i \in ExaminedRange :
        IF i = 1
        THEN walk_examined[1] = (IF walk_pc = "mux" \/ walk_result.walk = "mux"
                                 THEN walk_rows[1].ppid ELSE walk_rows[1].pid)
        ELSE /\ HasPid(walk_rows, walk_examined[i - 1])
             /\ walk_examined[i] = ByPid(walk_rows, walk_examined[i - 1]).ppid

\* the examined pids whose row carries a marker of the walk that ran
MuxMarked == {i \in ExaminedRange : HasPid(walk_rows, walk_examined[i])
                                    /\ MuxMarker(ByPid(walk_rows, walk_examined[i])) # NoMarker}
TerminalMarked == {i \in ExaminedRange : HasPid(walk_rows, walk_examined[i])
                                         /\ TerminalMarker(ByPid(walk_rows, walk_examined[i])) # None}

WalkSafe ==
    /\ \A i, j \in ExaminedRange : i # j => walk_examined[i] # walk_examined[j]
    /\ FollowsParents
    /\ walk_pc = "mux" \/ walk_result.walk = "mux" => Len(walk_examined) <= MaxHops
    /\ walk_pc = "mux" => MuxMarked = {}
    /\ walk_pc = "terminal" => TerminalMarked = {}
    /\ (walk_pc = "done" /\ walk_result.walk = "mux") =>
         /\ walk_result.value = InferMux(walk_rows[1], walk_rows)
         /\ IF MuxMarked = {} THEN walk_result.value = <<None, None>>
            ELSE /\ MuxMarked = {Len(walk_examined)}
                 /\ walk_result.value = MuxMarker(ByPid(walk_rows, walk_examined[Len(walk_examined)]))
    /\ (walk_pc = "done" /\ walk_result.walk = "terminal") =>
         /\ walk_result.value = DetectTerminalApp(1, walk_rows)
         /\ IF TerminalMarked = {} THEN walk_result.value = None
            ELSE /\ TerminalMarked = {Len(walk_examined)}
                 /\ walk_result.value = TerminalMarker(ByPid(walk_rows, walk_examined[Len(walk_examined)]))

\* C39: both ancestor walks end for every process table, cycles, self-loops and
\* missing pids included; no pid is examined twice in one walk; the mux walk
\* examines at most 20 ancestors and returns the mux of the nearest examined
\* ancestor whose args carry a mux marker (none when no examined ancestor has one).
C39_WalksEnd ==
    /\ []WalkSafe
    /\ (walk_pc \in {"mux", "terminal"}) ~> (walk_pc = "done")

\* the mux walk has stopped at the hop limit on a table whose parents form a
\* cycle 1 -> 2 -> ... -> 22 -> 1, the marker of process 22 out of reach
C39_Witness ==
    /\ walk_pc = "done"
    /\ walk_result.walk = "mux"
    /\ Len(walk_rows) = MaxHops + 2
    /\ walk_rows[MaxHops + 2].ppid = 1
    /\ MuxMarker(walk_rows[MaxHops + 2]) # NoMarker
    /\ Len(walk_examined) = MaxHops
    /\ walk_result.value = <<None, None>>

----------------------------------------------------------------------------
(* Properties of the session-file parser *)

\* C40: the timestamp returned with a message is that of a line the message was
\* built of, never that of a newer line skipped as tool trace or as
\* thinking/status line.
C40_Original ==
    (parse_result # NoParse /\ parse_result.ts # 0) =>
        \E k \in 1..Len(parse_result.from) :
            parse_lines[parse_result.from[k]].ts = parse_result.ts

====
